---- MODULE Spec2Model ----
(***************************************************************************)
(* SENT_Tool: the Mach Systems STX/ETX stream framer (mach_protocol.py),   *)
(* the message decoder (live_decode.py), the sensor semantics              *)
(* (sensor_803405.py) and the live loop that chains them (cli.py).         *)
(*                                                                         *)
(* Bytes are the integers 0..255.  Python's 0-based indexing is kept in    *)
(* the helpers At and PySlice; an index out of range is the outcome        *)
(* "raise" (IndexError), never a default value.                            *)
(***************************************************************************)
EXTENDS Integers, Sequences, FiniteSets, TLC

VARIABLES
    buf,        \* MachStreamParser._buf
    frames,     \* feed's local list `frames` (the value it returns)
    pc,         \* "idle": outside feed; "loop": inside feed's while loop;
                \* "raised": an exception left feed
    iters,      \* iterations of the while loop run by the current/last call
    entryLen,   \* len(_buf) when the current/last call entered the loop
    entryBuf,   \* _buf just before the current/last call's extend
    lastChunk,  \* the chunk given to the current/last call
    prevBuf,    \* _buf at the start of the last loop iteration
    prevFrames, \* `frames` at the start of the last loop iteration
    lastExit,   \* how the last loop iteration ended
    stream,     \* every byte fed to the parser so far, in order
    emitted,        \* every frame returned so far, in order
    pending,    \* chunks the scenario still has to deliver
    scen,       \* the scenario's inputs (SpecScen), or [kind |-> "none"]
    args,       \* cmd_live's arguments: quiet, swap_fast_data_nibbles
    call,       \* the arguments of the decode_frame call of SpecDecode
    record,     \* the record returned by the last decode_frame call
    running_state, \* cmd_live's running_state dict
    seen,       \* cmd_live's counter of processed frames
    fi,         \* frames of the last feed that cmd_live's for loop has taken
    fault,      \* "none", or the step whose exception ended the session
    reads,      \* transport.read calls made so far
    hadError,   \* some record decoded so far carries an "error"
    lastRaw,    \* per fragment id, the raw value of the last slow_rx record
                \* of that id given to enrich_state_from_slow_cache
    overwrote   \* the last record given to enrich_state_from_slow_cache
                \* replaced a stored fragment by a different raw value

vars == <<buf, frames, pc, iters, entryLen, entryBuf, lastChunk, prevBuf,
          prevFrames, lastExit, stream, emitted, pending, scen, args, call,
          record, running_state, seen, fi, fault, reads, hadError, lastRaw,
          overwrote>>

----------------------------------------------------------------------------
(* Bounds of the model *)

MaxStream == 8      \* bytes fed in one behaviour of Spec
MaxChunk == 2       \* longest chunk of one feed call in Spec
MaxPayload == 2     \* longest payload of a built frame in SpecScen
MaxNoise == 2       \* longest noise prefix in SpecScen
MaxBody == 4        \* longest payload body in SpecDecode
MaxReads == 2       \* transport.read calls of one live session
MaxFrames == 3      \* frames of one back-to-back burst in SpecBurst
MaxCount == 1       \* largest --count limit of a live session

----------------------------------------------------------------------------
(* Program constants *)

STX == 2
ETX == 3

\* The byte values the environment of Spec delivers: both markers and 0.
StreamBytes == {0, STX, ETX}
\* Message ids and payload bytes of the built frames of SpecScen: 255 makes
\* the checksum wrap around modulo 256.
ScenIds == {0, STX, 255}
ScenBytes == {0, STX, ETX}
\* Terminator values a corrupted frame carries instead of ETX.
BadTerminators == {0, STX}
\* Noise bytes: none equals STX.
NoiseBytes == {0, ETX}

----------------------------------------------------------------------------
(* Python sequence helpers *)

Min(a, b) == IF a < b THEN a ELSE b
Max(a, b) == IF a > b THEN a ELSE b

\* s[i] for a 0-based index that is in range
At(s, i) == s[i + 1]
InRange(s, i) == i >= 0 /\ i < Len(s)
\* s[a:b] for 0 <= a, 0 <= b
PySlice(s, a, b) == SubSeq(s, a + 1, Min(b, Len(s)))
\* s[a:]
PyFrom(s, a) == SubSeq(s, a + 1, Len(s))

\* sum(s[lo..hi]), 1-based, by halving (the recursion stays shallow)
RECURSIVE SumRange(_, _, _)
SumRange(s, lo, hi) ==
    IF lo > hi THEN 0
    ELSE IF lo = hi THEN s[lo]
    ELSE LET mid == (lo + hi) \div 2
         IN  SumRange(s, lo, mid) + SumRange(s, mid + 1, hi)

\* sum(s)
SumSeq(s) == SumRange(s, 1, Len(s))

\* All sequences over S of length 0..n
SeqUpTo(S, n) == UNION {[1..k -> S] : k \in 0..n}

----------------------------------------------------------------------------
(* mach_protocol.py *)

\* Mutant of calc_checksum: the two DATALEN bytes are left out of the sum
calc_checksum_NoLen(msg_id, datalen, data) ==
    (msg_id + SumSeq(data)) % 256

calc_checksum(msg_id, datalen, data) ==
    LET lsb == datalen % 256
        msb == (datalen \div 256) % 256
    IN  (msg_id + lsb + msb + SumSeq(data)) % 256

\* Mutant of build_frame: DATALEN written most significant byte first
build_frame_BigEndian(msg_id, data) ==
    LET datalen == Len(data)
        hdr == <<STX, msg_id, (datalen \div 256) % 256, datalen % 256>>
        chksum == calc_checksum(msg_id, datalen, data)
    IN  hdr \o data \o <<chksum, ETX>>

build_frame(msg_id, data) ==
    LET datalen == Len(data)
        hdr == <<STX, msg_id, datalen % 256, (datalen \div 256) % 256>>
        chksum == calc_checksum(msg_id, datalen, data)
    IN  hdr \o data \o <<chksum, ETX>>

MachFrame(msg_id, data, checksum_ok, checksum, raw) ==
    [msg_id |-> msg_id, data |-> data, checksum_ok |-> checksum_ok,
     checksum |-> checksum, raw |-> raw]

\* self._buf.index(STX): the 0-based position of the first STX, or -1 for
\* the ValueError that feed catches
RECURSIVE IndexOf(_, _)
IndexOf(s, b) ==
    IF s = <<>> THEN -1
    ELSE IF Head(s) = b THEN 0
    ELSE LET r == IndexOf(Tail(s), b) IN IF r = -1 THEN -1 ELSE r + 1

\* `if len(self._buf) < 4: break`
NeedHeader(b) == Len(b) < 4

\* `total_len = 1 + 1 + 2 + datalen + 1 + 1`
TotalLen(datalen) == 1 + 1 + 2 + datalen + 1 + 1

\* Mutant of NeedBody: the terminator is checked before the body arrived
NeedBody_Never(b, total_len) == FALSE

\* `if len(self._buf) < total_len: break`
NeedBody(b, total_len) == Len(b) < total_len

\* `if raw[-1] != ETX` (raw is not empty here)
BadTerminator(raw) == raw[Len(raw)] # ETX

\* Mutant of DropNoise: the leading noise stays in the buffer
DropNoise_Keep(b, stx_pos) == b

\* Mutant of DropNoise: the slice starts one byte early
DropNoise_OneLess(b, stx_pos) == PyFrom(b, stx_pos - 1)

\* `del self._buf[:stx_pos]` (stx_pos > 0)
DropNoise(b, stx_pos) == PyFrom(b, stx_pos)

\* Mutant of ResyncBuf: nothing is dropped after a bad terminator
ResyncBuf_Keep(b) == b

\* Mutant of ResyncBuf: the whole buffer is dropped after a bad terminator
ResyncBuf_Clear(b) == <<>>

\* Mutant of ResyncBuf: the start marker and the message id are dropped
ResyncBuf_Two(b) == PyFrom(b, 2)

\* `del self._buf[0]`: the resync after a bad terminator
ResyncBuf(b) == Tail(b)

\* Mutant of Consume: one byte more than the frame leaves the buffer
Consume_OneMore(b, total_len) == PyFrom(b, total_len + 1)

\* `del self._buf[:total_len]`: the emitted frame leaves the buffer
Consume(b, total_len) == PyFrom(b, total_len)

\* `checksum_ok = (chk == chk_calc)`
ChecksumOk(chk, chk_calc) == chk = chk_calc

\* Mutant of ExtractFrame: data is cut as raw[4:-1], checksum byte included
ExtractFrame_Long(raw, msg_id, datalen) ==
    LET data == PySlice(raw, 4, Len(raw) - 1)
        chk == At(raw, 4 + datalen)
        chk_calc == calc_checksum(msg_id, datalen, data)
    IN  MachFrame(msg_id, data, ChecksumOk(chk, chk_calc), chk, raw)

\* The frame appended by one iteration, from raw = bytes(self._buf[:total_len])
ExtractFrame(raw, msg_id, datalen) ==
    LET data == PySlice(raw, 4, 4 + datalen)
        chk == At(raw, 4 + datalen)
        chk_calc == calc_checksum(msg_id, datalen, data)
    IN  MachFrame(msg_id, data, ChecksumOk(chk, chk_calc), chk, raw)

\* One iteration of feed's `while True` on buffer b with frame list fs.
\* exit: "clear" (no STX: buffer cleared, break), "wait_hdr" and "wait_body"
\* (break), "resync" (continue), "emit" (frame appended, loop again),
\* "raise" (an IndexError leaves feed; buffer as it was at the raise).
LoopStep(b, fs) ==
    LET stx_pos == IndexOf(b, STX) IN
    IF stx_pos = -1 THEN [buf |-> <<>>, frames |-> fs, exit |-> "clear"]
    ELSE
    LET b1 == IF stx_pos > 0 THEN DropNoise(b, stx_pos) ELSE b IN
    IF NeedHeader(b1) THEN [buf |-> b1, frames |-> fs, exit |-> "wait_hdr"]
    ELSE IF ~InRange(b1, 3) THEN [buf |-> b1, frames |-> fs, exit |-> "raise"]
    ELSE
    LET msg_id == At(b1, 1)
        datalen == At(b1, 2) + 256 * At(b1, 3)
        total_len == TotalLen(datalen)
    IN
    IF NeedBody(b1, total_len)
    THEN [buf |-> b1, frames |-> fs, exit |-> "wait_body"]
    ELSE
    LET raw == PySlice(b1, 0, total_len) IN
    IF BadTerminator(raw)
    THEN [buf |-> ResyncBuf(b1), frames |-> fs, exit |-> "resync"]
    ELSE IF ~InRange(raw, 4 + datalen)
    THEN [buf |-> b1, frames |-> fs, exit |-> "raise"]
    ELSE [buf |-> Consume(b1, total_len),
          frames |-> Append(fs, ExtractFrame(raw, msg_id, datalen)),
          exit |-> "emit"]

Breaks == {"clear", "wait_hdr", "wait_body"}

\* The while loop run to its end: the buffer and the frames feed returns.
RECURSIVE FeedRun(_, _)
FeedRun(b, fs) ==
    LET r == LoopStep(b, fs) IN
    IF r.exit \in Breaks \cup {"raise"} THEN r ELSE FeedRun(r.buf, r.frames)

\* feed(chunk) on a parser whose buffer is b
Feed(b, chunk) == FeedRun(b \o chunk, <<>>)

----------------------------------------------------------------------------
(* Python values: None, strings, dicts *)

\* Optional values: None is the empty tuple, a value x present is <<x>>
\* (a timestamp present is the tuple of its four 16-bit limbs).
None == <<>>
Some(x) == <<x>>

\* A dict is a function from its keys; {} is the empty function.
EmptyDict == <<>>
\* d.update(u): the entries of u win
Update(d, u) == u @@ d
HasKey(d, k) == k \in DOMAIN d

\* A formatted string is the sequence of its pieces: each formatted digit is
\* a piece of one character, each literal part of an f-string is one piece.
HexChars == <<"0", "1", "2", "3", "4", "5", "6", "7",
              "8", "9", "A", "B", "C", "D", "E", "F">>
DecChars == <<"0", "1", "2", "3", "4", "5", "6", "7", "8", "9">>

RECURSIVE DigitsOf(_, _)
\* the digits of n >= 0 in the given base, most significant first
DigitsOf(n, base) ==
    IF n < base THEN <<n>> ELSE Append(DigitsOf(n \div base, base), n % base)

PadLeft(s, width, ch) == [i \in 1..(Max(width, Len(s)) - Len(s)) |-> ch] \o s

\* f"{n:0{width}X}"
FormatX(n, width) ==
    LET d == DigitsOf(n, 16)
    IN  PadLeft([i \in 1..Len(d) |-> HexChars[d[i] + 1]], width, "0")

\* f"{n:0{width}d}" for n >= 0
FormatD(n, width) ==
    LET d == DigitsOf(n, 10)
    IN  PadLeft([i \in 1..Len(d) |-> DecChars[d[i] + 1]], width, "0")

\* data.hex().upper(): two upper-case hex digits per byte
HexUpper(data) ==
    [i \in 1..(2 * Len(data)) |->
        IF i % 2 = 1 THEN HexChars[(data[(i + 1) \div 2] \div 16) + 1]
        ELSE HexChars[(data[i \div 2] % 16) + 1]]

----------------------------------------------------------------------------
(* sensor_803405.py *)

\* Mutant of pressure_bar_from_digit_value: the offset typed as 0.165
pressure_bar_from_digit_value_Offset(digit_value) == 825 * digit_value - 16500

\* 0.00825 * digit_value - 1.65, in units of 1e-5 bar
pressure_bar_from_digit_value(digit_value) == 825 * digit_value - 165000

PRESSURE_INIT_DIGIT_VALUE == 0
PRESSURE_LOW_CLAMP_MAX_DIGIT_VALUE == 1
PRESSURE_HIGH_CLAMP_MIN_DIGIT_VALUE == 4088
PRESSURE_ERROR_DIGIT_VALUE == 4090

\* Mutant of pressure_state_from_digit_value: the high-clamp range is tested
\* before the error code and has no upper end
pressure_state_from_digit_value_HighFirst(digit_value) ==
    IF digit_value >= PRESSURE_HIGH_CLAMP_MIN_DIGIT_VALUE THEN "HIGH_CLAMP"
    ELSE IF digit_value = PRESSURE_ERROR_DIGIT_VALUE THEN "ERROR_CODE_4090"
    ELSE IF digit_value = PRESSURE_INIT_DIGIT_VALUE THEN "INITIALIZATION"
    ELSE IF 0 < digit_value /\ digit_value <= PRESSURE_LOW_CLAMP_MAX_DIGIT_VALUE
         THEN "LOW_CLAMP"
    ELSE "OK"

pressure_state_from_digit_value(digit_value) ==
    IF digit_value = PRESSURE_ERROR_DIGIT_VALUE THEN "ERROR_CODE_4090"
    ELSE IF /\ digit_value >= PRESSURE_HIGH_CLAMP_MIN_DIGIT_VALUE
            /\ digit_value < PRESSURE_ERROR_DIGIT_VALUE THEN "HIGH_CLAMP"
    ELSE IF digit_value = PRESSURE_INIT_DIGIT_VALUE THEN "INITIALIZATION"
    ELSE IF 0 < digit_value /\ digit_value <= PRESSURE_LOW_CLAMP_MAX_DIGIT_VALUE
         THEN "LOW_CLAMP"
    ELSE "OK"

\* 0.125 * tval - 73.15, in units of 1e-3 degrees Celsius
temperature_c_from_tval(tval) == 125 * tval - 73150

DIAG_ERROR_TEXT ==
    (0 :> "No error") @@
    (2304 :> "Sensor supply undervoltage") @@
    (2305 :> "Sensor supply overvoltage") @@
    (4033 :> "IC internal hardware error") @@
    (4034 :> "IC internal ADC or Gain error") @@
    (3841 :> "Bridge connections check failed") @@
    (3842 :> "Bridge output short check failed") @@
    (3843 :> "Bridge common mode check failed") @@
    (3844 :> "Pressure ADC saturation error") @@
    (3333 :> "Internal IC Temperature error") @@
    (3845 :> "Internal math saturation")

SLOW_ID_DEFINITION ==
    (1 :> "DiagnosticErrorCodes") @@
    (3 :> "SensorType") @@
    (4 :> "ManufacturerType") @@
    (5 :> "ManufacturerCode") @@
    (6 :> "SENTStandardRevision") @@
    (7 :> "PressureCharacteristicX1") @@
    (8 :> "PressureCharacteristicX2") @@
    (9 :> "PressureCharacteristicY1") @@
    (10 :> "PressureCharacteristicY2") @@
    (35 :> "InternalTemperature") @@
    (41 :> "SensorIdSerialLast3") @@
    (42 :> "SensorIdSerialFirst3") @@
    (43 :> "DateCodeLast3") @@
    (44 :> "DateCodeFirst2")

\* The dataclass DecodedSlow; text, value and unit are Optional
DecodedSlow(msg_id, name, raw, text, value, unit) ==
    [msg_id |-> msg_id, name |-> name, raw |-> raw, text |-> text,
     value |-> value, unit |-> unit]

\* f"{p:.3f}" of a float: the rendering of the float is not modelled digit
\* by digit; the piece names the format and the scaled value it renders.
Fixed3(p) == <<"%.3f", p>>

\* Mutant of DiagText: the unknown code formatted in decimal
DiagText_Decimal(raw_value) ==
    IF raw_value \in DOMAIN DIAG_ERROR_TEXT
    THEN <<DIAG_ERROR_TEXT[raw_value]>>
    ELSE <<"Unknown diagnostic code 0x">> \o FormatD(raw_value, 3)

\* line 95: DIAG_ERROR_TEXT.get(raw_value,
\*              f"Unknown diagnostic code 0x{raw_value:03X}")
DiagText(raw_value) ==
    IF raw_value \in DOMAIN DIAG_ERROR_TEXT
    THEN <<DIAG_ERROR_TEXT[raw_value]>>
    ELSE <<"Unknown diagnostic code 0x">> \o FormatX(raw_value, 3)

\* Mutant of SlowName: the id formatted with X, without the width 02
SlowName_NoWidth(msg_id) ==
    IF msg_id \in DOMAIN SLOW_ID_DEFINITION
    THEN <<SLOW_ID_DEFINITION[msg_id]>>
    ELSE <<"UnknownSlowId_0x">> \o FormatX(msg_id, 1)

\* line 87: SLOW_ID_DEFINITION.get(msg_id, f"UnknownSlowId_0x{msg_id:02X}")
SlowName(msg_id) ==
    IF msg_id \in DOMAIN SLOW_ID_DEFINITION
    THEN <<SLOW_ID_DEFINITION[msg_id]>>
    ELSE <<"UnknownSlowId_0x">> \o FormatX(msg_id, 2)

decode_slow_value(msg_id, raw_value) ==
    LET name == SlowName(msg_id)
        D(text, value, unit) == DecodedSlow(msg_id, name, raw_value, text, value, unit)
    IN
    IF msg_id = 1 THEN
        D(DiagText(raw_value), None, None)
    ELSE IF msg_id = 35 THEN
        D(None, Some(temperature_c_from_tval(raw_value)), Some("degC"))
    ELSE IF msg_id = 7 THEN
        D(<<"X1 = 0 bar (raw=0x">> \o FormatX(raw_value, 3) \o <<")">>,
          Some(0), Some("bar"))
    ELSE IF msg_id = 8 THEN
        D(<<"X2 = 30 bar (raw=0x">> \o FormatX(raw_value, 3) \o <<")">>,
          Some(3000000), Some("bar"))
    ELSE IF msg_id \in {9, 10} THEN
        LET p == pressure_bar_from_digit_value(raw_value)
            label == IF msg_id = 9 THEN "Y1" ELSE "Y2"
        IN  D(<<label, ": DigitValue=">> \o FormatD(raw_value, 1) \o <<" -> ">>
                \o <<Fixed3(p)>> \o <<" bar">>,
              Some(p), Some("bar"))
    ELSE IF msg_id = 3 THEN
        D(<<"Sensor type = 0x">> \o FormatX(raw_value, 3), None, None)
    ELSE IF msg_id = 4 THEN
        D(<<"Manufacturer type = 0x">> \o FormatX(raw_value, 3), None, None)
    ELSE IF msg_id = 5 THEN
        D(<<"Manufacturer code = 0x">> \o FormatX(raw_value, 3), None, None)
    ELSE IF msg_id = 6 THEN
        D(<<"SENT standard revision = 0x">> \o FormatX(raw_value, 3), None, None)
    ELSE IF msg_id = 41 THEN
        D(<<"serial last3 = ">> \o FormatD(raw_value, 3), None, None)
    ELSE IF msg_id = 42 THEN
        D(<<"serial first3 = ">> \o FormatD(raw_value, 3), None, None)
    ELSE IF msg_id = 43 THEN
        D(<<"date last3 (cw/day) = ">> \o FormatD(raw_value, 3), None, None)
    ELSE IF msg_id = 44 THEN
        D(<<"date first2 (year) = ">> \o FormatD(raw_value, 2), None, None)
    ELSE
        D(<<"0x">> \o FormatX(raw_value, 1) \o <<" (">> \o FormatD(raw_value, 1)
            \o <<")">>, None, None)

combine_serial(first3, last3) == FormatD(first3, 3) \o FormatD(last3, 3)

\* Mutant of decode_date_code: week and day taken the other way round
decode_date_code_DaySplit(year_2digits, last3) ==
    LET cw == last3 % 100
        day == last3 \div 100
    IN  <<"YY=">> \o FormatD(year_2digits, 2) \o <<", CW=">> \o FormatD(cw, 2)
        \o <<", D=">> \o FormatD(day, 1)

decode_date_code(year_2digits, last3) ==
    LET cw == last3 \div 10
        day == last3 % 10
    IN  <<"YY=">> \o FormatD(year_2digits, 2) \o <<", CW=">> \o FormatD(cw, 2)
        \o <<", D=">> \o FormatD(day, 1)

----------------------------------------------------------------------------
(* live_decode.py *)

MSG_FAST_RX == 149
MSG_SLOW_RX == 150
MSG_FAST_ERR == 151
MSG_SLOW_ERR == 152
MSG_SENT_START == 116
MSG_SENT_STOP == 117

FAST_ERRTYPE_TEXT ==
    (0 :> "CRC mismatch") @@
    (1 :> "Framing error (nibble length out of range)") @@
    (2 :> "Adjacent sync error") @@
    (3 :> "SENT bus error (wrong sync)")

SLOW_ERRTYPE_TEXT ==
    (0 :> "CRC") @@
    (1 :> "Framing") @@
    (2 :> "Sync")

\* now_iso(): the wall-clock string; no decoded field depends on its value
now_iso == "pc_time"

\* Mutant of _has_timestamp: any payload long enough counts as stamped
_has_timestamp_AtLeast(total_len, base_len) == total_len >= base_len + 8

_has_timestamp(total_len, base_len) == total_len = base_len + 8

\* int.from_bytes(b, "little", signed=False) of 8 bytes, as its four 16-bit
\* limbs, least significant first
FromBytesLittle8(b) ==
    [i \in 1..4 |-> b[2 * i - 1] + 256 * b[2 * i]]

\* data[-8:] (len(data) >= 8)
Last8(data) == SubSeq(data, Len(data) - 7, Len(data))

\* `ts_us = int.from_bytes(data[-8:], ...)` when has_ts, else None
TimestampOf(data, has_ts) ==
    IF has_ts THEN FromBytesLittle8(Last8(data)) ELSE None

\* Mutant of _decode_fast_nibbles: the flag acts on the first byte only
_decode_fast_nibbles_FirstByte(data_bytes, swap_within_byte) ==
    [i \in 1..(2 * Len(data_bytes)) |->
        LET b == data_bytes[(i + 1) \div 2]
            lo == b % 16
            hi == (b \div 16) % 16
        IN  IF swap_within_byte /\ i <= 2
            THEN (IF i % 2 = 1 THEN hi ELSE lo)
            ELSE (IF i % 2 = 1 THEN lo ELSE hi)]

\* Mutant of _decode_fast_nibbles: the flag is ignored
_decode_fast_nibbles_NoSwap(data_bytes, swap_within_byte) ==
    [i \in 1..(2 * Len(data_bytes)) |->
        LET b == data_bytes[(i + 1) \div 2]
            lo == b % 16
            hi == (b \div 16) % 16
        IN  IF i % 2 = 1 THEN lo ELSE hi]

_decode_fast_nibbles(data_bytes, swap_within_byte) ==
    [i \in 1..(2 * Len(data_bytes)) |->
        LET b == data_bytes[(i + 1) \div 2]
            lo == b % 16
            hi == (b \div 16) % 16
        IN  IF swap_within_byte
            THEN (IF i % 2 = 1 THEN hi ELSE lo)
            ELSE (IF i % 2 = 1 THEN lo ELSE hi)]

\* Mutant of CrcOk: the flag is set whatever the two fields hold
CrcOk_Always(crc_rx, crc_calc) == TRUE

\* `"crc_ok": (crc_rx == crc_calc)` (fast_rx and slow_rx)
CrcOk(crc_rx, crc_calc) == crc_rx = crc_calc

\* `if len(data) < 3` (fast_rx)
FastTooShort(data) == Len(data) < 3
\* Mutant of FastLenMismatch: the length test against base_len_no_ts is gone
FastLenMismatch_Never(data, base_len_no_ts) == FALSE

\* `if len(data) < base_len_no_ts` (fast_rx)
FastLenMismatch(data, base_len_no_ts) == Len(data) < base_len_no_ts
\* Mutant of SlowTooShort: the test is off by one
SlowTooShort_OffByOne(data) == Len(data) < 5

\* `if len(data) < 6` (slow_rx)
SlowTooShort(data) == Len(data) < 6
\* `if len(data) < 2` (fast_error, slow_error)
ErrTooShort(data) == Len(data) < 2

\* The outcome of a call that an exception left: a record without "type"
Raised(what) == [exception |-> what]

\* `out["type"] = kind; out["error"] = text; return out`
ErrorRecord(out, kind, text) == Update(out, [type |-> kind, error |-> text])

\* The sensor dict of a fast_rx record
FastSensor(nibbles) ==
    LET s3 == IF Len(nibbles) >= 3
              THEN LET digit_value == nibbles[1] * 256 + nibbles[2] * 16 + nibbles[3]
                   IN  [digit_value |-> digit_value,
                        pressure_bar |-> pressure_bar_from_digit_value(digit_value),
                        pressure_state |-> pressure_state_from_digit_value(digit_value)]
              ELSE EmptyDict
        s5 == IF Len(nibbles) >= 5
              THEN [rolling_counter |-> nibbles[4] * 16 + nibbles[5]]
              ELSE EmptyDict
        s6 == IF Len(nibbles) >= 6
              THEN [invert_nibble |-> nibbles[6],
                    invert_ok |-> (nibbles[6] = 15 - nibbles[1])]
              ELSE EmptyDict
    IN  Update(Update(s3, s5), s6)

DecodeFastRx(out, data, swap_fast_data_nibbles) ==
    IF FastTooShort(data) THEN ErrorRecord(out, "fast_rx", "payload too short")
    ELSE IF ~InRange(data, 1) THEN Raised("IndexError")
    ELSE
    LET channel == At(data, 0)
        status_count == At(data, 1)
        status == status_count % 16
        nibblecnt == (status_count \div 16) % 16
        data_byte_count == (nibblecnt + 1) \div 2
        base_len_no_ts == 2 + data_byte_count + 1
        has_ts == _has_timestamp(Len(data), base_len_no_ts)
        crc_index == 2 + data_byte_count
    IN
    IF FastLenMismatch(data, base_len_no_ts)
    THEN ErrorRecord(out, "fast_rx", "payload length mismatch")
    ELSE IF ~InRange(data, crc_index) THEN Raised("IndexError")
    ELSE
    LET data_bytes == PySlice(data, 2, crc_index)
        crc_byte == At(data, crc_index)
        ts_us == TimestampOf(data, has_ts)
        crc_rx == crc_byte % 16
        crc_calc == (crc_byte \div 16) % 16
        all == _decode_fast_nibbles(data_bytes, swap_fast_data_nibbles)
        nibbles == PySlice(all, 0, nibblecnt)
    IN  Update(out,
            [type |-> "fast_rx",
             channel |-> channel,
             status_nibble |-> status,
             data_nibble_count |-> nibblecnt,
             data_nibbles |-> nibbles,
             crc_rx |-> crc_rx,
             crc_calc |-> crc_calc,
             crc_ok |-> CrcOk(crc_rx, crc_calc),
             timestamp_us |-> ts_us,
             sensor |-> FastSensor(nibbles)])

DecodeSlowRx(out, data) ==
    IF SlowTooShort(data) THEN ErrorRecord(out, "slow_rx", "payload too short")
    ELSE IF ~InRange(data, 5) THEN Raised("IndexError")
    ELSE
    LET channel == At(data, 0)
        slow_id == At(data, 1)
        raw_val == At(data, 2) + 256 * At(data, 3)
        frame_info == At(data, 4)
        crc_calc == At(data, 5) % 64
        has_ts == _has_timestamp(Len(data), 6)
        ts_us == TimestampOf(data, has_ts)
        fmt == (frame_info \div 128) % 2
        frametype == (frame_info \div 64) % 2
        crc_rx == frame_info % 64
        decoded == decode_slow_value(slow_id, raw_val)
    IN  Update(out,
            [type |-> "slow_rx",
             channel |-> channel,
             slow_id |-> slow_id,
             slow_id_hex |-> <<"0x">> \o FormatX(slow_id, 2),
             slow_raw |-> raw_val,
             format_bit |-> fmt,
             frame_type |-> IF frametype = 1 THEN "enhanced" ELSE "short",
             crc_rx |-> crc_rx,
             crc_calc |-> crc_calc,
             crc_ok |-> CrcOk(crc_rx, crc_calc),
             timestamp_us |-> ts_us,
             decoded |-> [name |-> decoded.name, raw |-> decoded.raw,
                          text |-> decoded.text, value |-> decoded.value,
                          unit |-> decoded.unit]])

\* TABLE.get(errtype, f"Unknown({errtype})")
ErrTypeText(table, errtype) ==
    IF errtype \in DOMAIN table THEN <<table[errtype]>>
    ELSE <<"Unknown(">> \o FormatD(errtype, 1) \o <<")">>

DecodeFastErr(out, data) ==
    IF ErrTooShort(data) THEN ErrorRecord(out, "fast_error", "payload too short")
    ELSE IF ~InRange(data, 1) THEN Raised("IndexError")
    ELSE
    LET channel == At(data, 0)
        err == At(data, 1)
        errtype == (err \div 16) % 4
        frmerrcode == err % 16
        has_ts == _has_timestamp(Len(data), 2)
        ts_us == TimestampOf(data, has_ts)
    IN  Update(out,
            [type |-> "fast_error",
             channel |-> channel,
             errtype |-> errtype,
             errtype_text |-> ErrTypeText(FAST_ERRTYPE_TEXT, errtype),
             framing_error_code |-> frmerrcode,
             timestamp_us |-> ts_us])

DecodeSlowErr(out, data) ==
    IF ErrTooShort(data) THEN ErrorRecord(out, "slow_error", "payload too short")
    ELSE IF ~InRange(data, 1) THEN Raised("IndexError")
    ELSE
    LET channel == At(data, 0)
        err == At(data, 1)
        errtype == (err \div 16) % 4
        has_ts == _has_timestamp(Len(data), 2)
        ts_us == TimestampOf(data, has_ts)
    IN  Update(out,
            [type |-> "slow_error",
             channel |-> channel,
             errtype |-> errtype,
             errtype_text |-> ErrTypeText(SLOW_ERRTYPE_TEXT, errtype),
             timestamp_us |-> ts_us])

\* Mutant of Dispatch: the slow-error test compares with MSG_FAST_ERR again
Dispatch_CopyPaste(msg_id) ==
    IF msg_id = MSG_FAST_RX THEN "fast_rx"
    ELSE IF msg_id = MSG_SLOW_RX THEN "slow_rx"
    ELSE IF msg_id = MSG_FAST_ERR THEN "fast_error"
    ELSE IF msg_id = MSG_FAST_ERR THEN "slow_error"
    ELSE "other"

\* The message kind chosen by the chain of `if msg_id == ...` tests
Dispatch(msg_id) ==
    IF msg_id = MSG_FAST_RX THEN "fast_rx"
    ELSE IF msg_id = MSG_SLOW_RX THEN "slow_rx"
    ELSE IF msg_id = MSG_FAST_ERR THEN "fast_error"
    ELSE IF msg_id = MSG_SLOW_ERR THEN "slow_error"
    ELSE "other"

decode_frame(msg_id, data, swap_fast_data_nibbles) ==
    LET out == [pc_time |-> now_iso,
                msg_id |-> msg_id,
                msg_id_hex |-> <<"0x">> \o FormatX(msg_id, 2),
                raw_data_hex |-> HexUpper(data)]
        kind == Dispatch(msg_id)
    IN  CASE kind = "fast_rx" -> DecodeFastRx(out, data, swap_fast_data_nibbles)
          [] kind = "slow_rx" -> DecodeSlowRx(out, data)
          [] kind = "fast_error" -> DecodeFastErr(out, data)
          [] kind = "slow_error" -> DecodeSlowErr(out, data)
          [] OTHER -> Update(out, [type |-> "other"])

\* dict.get(k): None when the key is absent
Get(d, k) == IF HasKey(d, k) THEN d[k] ELSE None

\* Mutant of StoreFragment: the two serial ids are stored under each other's
\* key
StoreFragment_Swapped(state, sid, slow_raw) ==
    IF sid = 41 THEN Update(state, [serial_first3 |-> slow_raw])
    ELSE IF sid = 42 THEN Update(state, [serial_last3 |-> slow_raw])
    ELSE IF sid = 43 THEN Update(state, [date_last3 |-> slow_raw])
    ELSE IF sid = 44 THEN Update(state, [date_first2 |-> slow_raw])
    ELSE state

\* Mutant of StoreFragment: a final else keeps the raw value of any other id
StoreFragment_Else(state, sid, slow_raw) ==
    IF sid = 41 THEN Update(state, [serial_last3 |-> slow_raw])
    ELSE IF sid = 42 THEN Update(state, [serial_first3 |-> slow_raw])
    ELSE IF sid = 43 THEN Update(state, [date_last3 |-> slow_raw])
    ELSE IF sid = 44 THEN Update(state, [date_first2 |-> slow_raw])
    ELSE Update(state, [last_raw |-> slow_raw])

\* lines 255-262: the chain `if sid == 0x29 ... elif sid == 0x2C`
StoreFragment(state, sid, slow_raw) ==
    IF sid = 41 THEN Update(state, [serial_last3 |-> slow_raw])
    ELSE IF sid = 42 THEN Update(state, [serial_first3 |-> slow_raw])
    ELSE IF sid = 43 THEN Update(state, [date_last3 |-> slow_raw])
    ELSE IF sid = 44 THEN Update(state, [date_first2 |-> slow_raw])
    ELSE state

\* Mutant of ComposeSerial: a serial number once composed is kept
ComposeSerial_Once(state) ==
    IF /\ HasKey(state, "serial_first3") /\ HasKey(state, "serial_last3")
       /\ ~HasKey(state, "serial_number")
    THEN Update(state, [serial_number |->
                combine_serial(state["serial_first3"], state["serial_last3"])])
    ELSE state

\* lines 264-265
ComposeSerial(state) ==
    IF HasKey(state, "serial_first3") /\ HasKey(state, "serial_last3")
    THEN Update(state, [serial_number |->
                combine_serial(state["serial_first3"], state["serial_last3"])])
    ELSE state

\* lines 267-268
ComposeDate(state) ==
    IF HasKey(state, "date_first2") /\ HasKey(state, "date_last3")
    THEN Update(state, [date_code |->
                decode_date_code(state["date_first2"], state["date_last3"])])
    ELSE state

\* enrich_state_from_slow_cache: the state dict after the call.  A record
\* without "slow_id" gives sid = None, which equals none of the four ids.
enrich_state_from_slow_cache(state, decoded) ==
    IF ~HasKey(decoded, "type") \/ decoded["type"] # "slow_rx" THEN state
    ELSE
    LET has_sid == HasKey(decoded, "slow_id")
        sid == IF has_sid THEN decoded["slow_id"] ELSE -1
        slow_raw == Get(decoded, "slow_raw")
    IN  ComposeDate(ComposeSerial(StoreFragment(state, sid, slow_raw)))

----------------------------------------------------------------------------
(* cli.py: what _print_human does with a record *)

\* _print_human formats status_nibble with :X and sensor's pressure_bar with
\* :.3f for every fast_rx record; either is None (a TypeError) when the
\* record is an error record or holds fewer than three nibbles.
PrintRaises(decoded) ==
    /\ HasKey(decoded, "type")
    /\ decoded["type"] = "fast_rx"
    /\ \/ ~HasKey(decoded, "status_nibble")
       \/ ~HasKey(decoded, "sensor")
       \/ ~HasKey(decoded["sensor"], "pressure_bar")

----------------------------------------------------------------------------
(* The parser as a state machine: feed is entered by FeedCall and its loop *)
(* runs one iteration per step until it returns.                           *)

NoScen == [kind |-> "none"]
\* The scenario of a live session and of a lone decode_frame call
LiveScen == [kind |-> "live"]
DecodeScen == [kind |-> "decode"]
NoArgs == [quiet |-> TRUE, swap |-> FALSE, count |-> None]
NoCall == [msg_id |-> 0, data |-> <<>>, swap |-> FALSE]
\* No record decoded yet
NoRecord == [none |-> TRUE]

\* The slow ids enrich_state_from_slow_cache stores (0x29 .. 0x2C)
FragmentIds == {41, 42, 43, 44}
\* No fragment applied yet
NoLast == [i \in FragmentIds |-> None]
\* The log of last raw values after `decoded` went through the update: a
\* slow_rx record with one of the four ids replaces that id's entry
ApplyLast(last, decoded) ==
    IF /\ HasKey(decoded, "type")
       /\ decoded["type"] = "slow_rx"
       /\ HasKey(decoded, "slow_id")
       /\ decoded["slow_id"] \in FragmentIds
    THEN [last EXCEPT ![decoded["slow_id"]] = Some(decoded["slow_raw"])]
    ELSE last
\* `decoded` replaces a fragment stored before by a different raw value
Overwrites(last, decoded) ==
    \E id \in FragmentIds :
        last[id] # None /\ ApplyLast(last, decoded)[id] # last[id]

ParserInit ==
    /\ buf = <<>>
    /\ frames = <<>>
    /\ pc = "idle"
    /\ iters = 0
    /\ entryLen = 0
    /\ entryBuf = <<>>
    /\ lastChunk = <<>>
    /\ prevBuf = <<>>
    /\ prevFrames = <<>>
    /\ lastExit = "none"
    /\ stream = <<>>
    /\ emitted = <<>>

\* The state of a live session before its loop starts (cmd_live), and the
\* value these variables keep where no live session runs
LiveIdle ==
    /\ record = NoRecord
    /\ running_state = EmptyDict
    /\ seen = 0
    /\ fi = 0
    /\ fault = "none"
    /\ reads = 0
    /\ hadError = FALSE
    /\ lastRaw = NoLast
    /\ overwrote = FALSE

parserVars == <<buf, frames, pc, iters, entryLen, entryBuf, lastChunk,
                prevBuf, prevFrames, lastExit, stream, emitted>>
liveVars == <<record, running_state, seen, fi, fault, reads, hadError,
              lastRaw, overwrote>>

\* Mutant of FeedCall: the chunk replaces the buffer instead of extending it
FeedCall_Replace(chunk) ==
    /\ pc = "idle"
    /\ buf' = chunk
    /\ frames' = <<>>
    /\ pc' = "loop"
    /\ iters' = 0
    /\ entryLen' = Len(chunk)
    /\ entryBuf' = buf
    /\ lastChunk' = chunk
    /\ UNCHANGED <<prevBuf, prevFrames, lastExit>>

\* feed, lines 44-46: extend the buffer, start with no frames
FeedCall(chunk) ==
    /\ pc = "idle"
    /\ buf' = buf \o chunk
    /\ frames' = <<>>
    /\ pc' = "loop"
    /\ iters' = 0
    /\ entryLen' = Len(buf) + Len(chunk)
    /\ entryBuf' = buf
    /\ lastChunk' = chunk
    /\ UNCHANGED <<prevBuf, prevFrames, lastExit>>

\* feed, lines 48-95: one iteration of the loop; a break returns `frames`
LoopIterCore ==
    /\ pc = "loop"
    /\ LET r == LoopStep(buf, frames) IN
        /\ buf' = r.buf
        /\ frames' = r.frames
        /\ lastExit' = r.exit
        /\ pc' = IF r.exit \in Breaks THEN "idle"
                 ELSE IF r.exit = "raise" THEN "raised" ELSE "loop"
    /\ prevBuf' = buf
    /\ prevFrames' = frames
    /\ iters' = iters + 1
    /\ UNCHANGED <<entryLen, entryBuf, lastChunk>>

\* feed called on a parser whose input and output are logged
FeedBegin(chunk) ==
    /\ FeedCall(chunk)
    /\ stream' = stream \o chunk
    /\ UNCHANGED emitted

LoopIter ==
    /\ LoopIterCore
    /\ emitted' = IF pc' = "idle" THEN emitted \o frames' ELSE emitted
    /\ UNCHANGED <<stream, pending, scen, args, call, liveVars>>

----------------------------------------------------------------------------
(* Spec: a parser fed arbitrary chunks of arbitrary bytes *)

Init ==
    /\ ParserInit
    /\ LiveIdle
    /\ pending = <<>>
    /\ scen = NoScen
    /\ args = NoArgs
    /\ call = NoCall

Read ==
    \E chunk \in SeqUpTo(StreamBytes, MaxChunk) :
        /\ Len(stream) + Len(chunk) <= MaxStream
        /\ FeedBegin(chunk)
        /\ UNCHANGED <<pending, scen, args, call, liveVars>>

Next == Read \/ LoopIter

Spec == Init /\ [][Next]_vars

----------------------------------------------------------------------------
(* SpecScen: a fresh parser fed one scenario built with build_frame *)

\* The corrupted frame: the terminator byte replaced by `bad`
Corrupt(frame, bad) == SubSeq(frame, 1, Len(frame) - 1) \o <<bad>>

\* Payload lengths for which the high DATALEN byte is not 0
LongLens == {255, 256, 258, 65535}
\* A long payload: the bytes 1, 2, 3, 0, 1, ... (STX and ETX among them)
LongPayload(n) == [i \in 1..n |-> i % 4]

Payloads == SeqUpTo(ScenBytes, MaxPayload)

Scenario(kind, id, data, bad, id2, data2, noise, split) ==
    [kind |-> kind, id |-> id, data |-> data, bad |-> bad, id2 |-> id2,
     data2 |-> data2, noise |-> noise, split |-> split]

ScenSet ==
    {Scenario("roundtrip", id, data, ETX, 0, <<>>, <<>>, FALSE) :
        id \in ScenIds, data \in Payloads \cup {LongPayload(n) : n \in LongLens}}
    \cup
    {Scenario("corrupt", x[1], x[2], x[3], x[4], x[5], <<>>, FALSE) :
        x \in ScenIds \X Payloads \X BadTerminators \X ScenIds \X Payloads}
    \cup
    {Scenario("noise", x[1], x[2], ETX, 0, <<>>, x[3], x[4]) :
        x \in ScenIds \X Payloads \X SeqUpTo(NoiseBytes, MaxNoise) \X BOOLEAN}

\* The chunks the transport delivers in scenario s
ChunksOf(s) ==
    CASE s.kind = "roundtrip" -> <<build_frame(s.id, s.data)>>
      [] s.kind = "corrupt" ->
            <<Corrupt(build_frame(s.id, s.data), s.bad)
              \o build_frame(s.id2, s.data2)>>
      [] s.kind = "noise" ->
            IF s.split THEN <<s.noise, build_frame(s.id, s.data)>>
            ELSE <<s.noise \o build_frame(s.id, s.data)>>

InitScen ==
    /\ ParserInit
    /\ LiveIdle
    /\ scen \in ScenSet
    /\ pending = ChunksOf(scen)
    /\ args = NoArgs
    /\ call = NoCall

Deliver ==
    /\ pending # <<>>
    /\ FeedBegin(Head(pending))
    /\ pending' = Tail(pending)
    /\ UNCHANGED <<scen, args, call, liveVars>>

NextScen == Deliver \/ LoopIter

SpecScen == InitScen /\ [][NextScen]_vars

----------------------------------------------------------------------------
(* SpecBurst: a fresh parser fed, in one call, frames built with           *)
(* build_frame back to back                                                *)

\* Ids and payloads of the frames of a burst: markers inside the payload,
\* an id equal to STX, an id that makes the checksum wrap
BurstIds == {STX, 255}
BurstPayloads == {<<>>, <<STX>>, <<ETX, STX>>, <<0, ETX>>}
BurstMsgs == {[id |-> x[1], data |-> x[2]] : x \in BurstIds \X BurstPayloads}

\* The frames of the messages msgs, concatenated
RECURSIVE BurstWire(_)
BurstWire(msgs) ==
    IF msgs = <<>> THEN <<>>
    ELSE build_frame(Head(msgs).id, Head(msgs).data) \o BurstWire(Tail(msgs))

BurstSet ==
    {[kind |-> "burst", msgs |-> m] :
        m \in UNION {[1..k -> BurstMsgs] : k \in 1..MaxFrames}}

InitBurst ==
    /\ ParserInit
    /\ LiveIdle
    /\ scen \in BurstSet
    /\ pending = <<BurstWire(scen.msgs)>>
    /\ args = NoArgs
    /\ call = NoCall

SpecBurst == InitBurst /\ [][NextScen]_vars

----------------------------------------------------------------------------
(* SpecDecode: decode_frame applied to one message id, payload and flag *)

KnownIds == {MSG_FAST_RX, MSG_SLOW_RX, MSG_FAST_ERR, MSG_SLOW_ERR}
AllIds == 0..255

\* Payloads: nothing, a channel byte alone, or channel, second byte, a body
\* and either no tail or eight more bytes.
Channels == {0, 1}
\* Second bytes: nibble counts 0, 1, 2, 3, 6 (fast), error types 0..3 and
\* the slow id 0x2A
Byte1s == {0, 16, 42, 53, 96}
BodyBytes == {0, 18, 165}
Tails == {<<>>, <<1, 0, 0, 0, 0, 0, 0, 0>>,
          <<18, 52, 86, 120, 154, 188, 222, 255>>}

DataSet ==
    {<<>>} \cup {<<c>> : c \in Channels} \cup
    {<<x[1], x[2]>> \o x[3] \o x[4] :
        x \in Channels \X Byte1s \X SeqUpTo(BodyBytes, MaxBody) \X Tails}

SmallDataSet == {<<>>, <<0>>, <<2, 3>>, <<0, 165, 255>>, <<10, 11, 12, 13, 14, 15>>}

CallSet ==
    {[msg_id |-> x[1], data |-> x[2], swap |-> x[3]] :
        x \in KnownIds \X DataSet \X BOOLEAN}
    \cup
    {[msg_id |-> x[1], data |-> x[2], swap |-> x[3]] :
        x \in AllIds \X SmallDataSet \X BOOLEAN}

InitDecode ==
    /\ ParserInit
    /\ LiveIdle
    /\ pending = <<>>
    /\ scen = DecodeScen
    /\ args = NoArgs
    /\ call \in CallSet

\* One call of decode_frame; an exception leaves no record
DecodeCall ==
    /\ scen = DecodeScen
    /\ record = NoRecord
    /\ fault = "none"
    /\ LET d == decode_frame(call.msg_id, call.data, call.swap) IN
        /\ record' = d
        /\ fault' = IF HasKey(d, "type") THEN "none" ELSE "decode"
    /\ seen' = seen + 1
    /\ UNCHANGED <<parserVars, pending, scen, args, call, running_state, fi,
                   reads, hadError, lastRaw, overwrote>>

NextDecode == DecodeCall

SpecDecode == InitDecode /\ [][NextDecode]_vars

----------------------------------------------------------------------------
(* SpecLive: cmd_live's loop: read a chunk, feed it, and for every frame   *)
(* returned decode it, update the running state and print the record.     *)

LiveIds == KnownIds \cup {MSG_SENT_START}
\* Payloads on the wire: empty, a fast payload one byte short of its three
\* nibbles, a fast payload of three nibbles, a slow payload cut short, and
\* the two serial-number fragments (0x2A raw 123, 0x29 raw 456)
LivePayloads ==
    {<<>>, <<0, 48, 33, 0>>, <<0, 48, 33, 4, 0>>, <<0, 42, 123>>,
     <<0, 42, 123, 0, 0, 0>>, <<0, 41, 200, 1, 0, 0>>}

\* A frame whose checksum byte is wrong
BadChecksum(frame) ==
    [frame EXCEPT ![Len(frame) - 1] = (frame[Len(frame) - 1] + 1) % 256]

LiveWires == {build_frame(id, d) : id \in LiveIds, d \in LivePayloads}

\* One read that returns more than a frame: a frame with a wrong terminator
\* followed by a good slow frame, and two good frames back to back
LiveBursts ==
    {Corrupt(build_frame(MSG_FAST_RX, <<>>), 0)
        \o build_frame(MSG_SLOW_RX, <<0, 42, 123, 0, 0, 0>>),
     build_frame(MSG_SLOW_RX, <<0, 42, 123, 0, 0, 0>>)
        \o build_frame(MSG_SLOW_RX, <<0, 41, 200, 1, 0, 0>>)}

\* What one transport.read may return: nothing, noise, a frame, a frame
\* with a wrong checksum or terminator, the head or the rest of a frame,
\* several frames at once
LiveChunks ==
    {<<>>, <<0>>, <<STX>>}
    \cup LiveWires
    \cup LiveBursts
    \cup {BadChecksum(build_frame(MSG_SLOW_RX, d)) : d \in LivePayloads}
    \cup {Corrupt(build_frame(MSG_FAST_RX, d), 0) : d \in LivePayloads}
    \cup {SubSeq(build_frame(MSG_FAST_RX, d), 1, 3) : d \in LivePayloads}
    \cup {PyFrom(build_frame(MSG_FAST_RX, d), 3) : d \in LivePayloads}

\* The values of --count tried: absent (the default), or a limit of
\* one up to MaxCount packets
Counts == {None} \cup {Some(n) : n \in 1..MaxCount}

InitLive ==
    /\ ParserInit
    /\ LiveIdle
    /\ pending = <<>>
    /\ scen = LiveScen
    /\ args \in [quiet : BOOLEAN, swap : BOOLEAN, count : Counts]
    /\ call = NoCall

\* cli.py 212-213: `if args.count is not None and seen >= int(args.count):
\* break`, at the top of the `while True` loop
CountReached(count, n) == count # None /\ n >= count[1]

\* cli.py 212-219: the loop goes on unless the count is reached;
\* `chunk = transport.read(4096)`; an empty chunk is skipped (`continue`),
\* any other is fed to the parser
LiveRead ==
    /\ scen = LiveScen
    /\ fault = "none"
    /\ pc = "idle"
    /\ fi = Len(frames)
    /\ reads < MaxReads
    /\ ~CountReached(args.count, seen)
    /\ \E chunk \in LiveChunks :
        IF chunk = <<>>
        THEN UNCHANGED <<buf, frames, pc, iters, entryLen, entryBuf,
                         lastChunk, prevBuf, prevFrames, lastExit, fi>>
        ELSE FeedCall(chunk) /\ fi' = 0
    /\ reads' = reads + 1
    /\ UNCHANGED <<stream, emitted, pending, scen, args, call, record,
                   running_state, seen, fault, hadError, lastRaw,
                   overwrote>>

\* One iteration of feed's loop inside the live session; an exception that
\* leaves feed ends the session
LiveLoopIter ==
    /\ fault = "none"
    /\ LoopIterCore
    /\ fault' = IF pc' = "raised" THEN "feed" ELSE "none"
    /\ UNCHANGED <<stream, emitted, pending, scen, args, call, record,
                   running_state, seen, fi, reads, hadError, lastRaw, overwrote>>

\* cli.py 219-250: the body of `for frame in parser.feed(chunk)` for one
\* frame: decode_frame, enrich_state_from_slow_cache, _print_human unless
\* --quiet, `seen += 1`.  Only KeyboardInterrupt is caught around the loop.
ProcessFrame ==
    /\ scen = LiveScen
    /\ fault = "none"
    /\ pc = "idle"
    /\ fi < Len(frames)
    /\ LET frame == frames[fi + 1]
           decoded == decode_frame(frame.msg_id, frame.data, args.swap)
       IN  IF ~HasKey(decoded, "type")
           THEN /\ fault' = "decode"
                /\ UNCHANGED <<record, running_state, seen, fi, hadError,
                               lastRaw, overwrote>>
           ELSE /\ record' = decoded
                /\ running_state' =
                        enrich_state_from_slow_cache(running_state, decoded)
                /\ lastRaw' = ApplyLast(lastRaw, decoded)
                /\ overwrote' = Overwrites(lastRaw, decoded)
                /\ hadError' = (hadError \/ HasKey(decoded, "error"))
                /\ IF ~args.quiet /\ PrintRaises(decoded)
                   THEN fault' = "print" /\ UNCHANGED <<seen, fi>>
                   ELSE /\ fault' = "none"
                        /\ seen' = seen + 1
                        /\ fi' = fi + 1
    /\ UNCHANGED <<parserVars, pending, scen, args, call, reads>>

NextLive == LiveRead \/ LiveLoopIter \/ ProcessFrame

SpecLive == InitLive /\ [][NextLive]_vars

\* SpecCore: the core under every input: a live session, or decode_frame
\* called on its own
SpecCore == (InitLive \/ InitDecode) /\ [][NextLive \/ NextDecode]_vars

----------------------------------------------------------------------------
(* SpecSensor: the sensor semantics called on their own: the two pressure  *)
(* functions on a digit value, decode_slow_value on a slow id and a raw    *)
(* value.                                                                  *)

SensorScen == [kind |-> "sensor"]

\* The 12-bit digit values of the fast channel (three nibbles)
DigitValues == 0..4095
\* Raw values of a slow message (data[2] | data[3] << 8, 16 bits): the ends,
\* the keys of DIAG_ERROR_TEXT, values around three decimal digits, 0x999
SlowRaws == {0, 7, 99, 123, 245, 999, 1000, 2457, 4095, 4096, 65535}
            \cup DOMAIN DIAG_ERROR_TEXT
SlowIds == 0..255

SensorCalls ==
    {[fn |-> "pressure", digit_value |-> d] : d \in DigitValues}
    \cup
    {[fn |-> "slow", msg_id |-> x[1], raw_value |-> x[2]] :
        x \in SlowIds \X SlowRaws}

InitSensor ==
    /\ ParserInit
    /\ LiveIdle
    /\ pending = <<>>
    /\ scen = SensorScen
    /\ args = NoArgs
    /\ call \in SensorCalls

\* pressure_bar_from_digit_value and pressure_state_from_digit_value on one
\* digit value (as decode_frame calls them, live_decode.py 110-111)
PressureCall ==
    /\ scen = SensorScen
    /\ call.fn = "pressure"
    /\ record = NoRecord
    /\ record' = [pressure_bar |-> pressure_bar_from_digit_value(call.digit_value),
                  pressure_state |->
                        pressure_state_from_digit_value(call.digit_value)]
    /\ seen' = seen + 1
    /\ UNCHANGED <<parserVars, pending, scen, args, call, running_state, fi,
                   fault, reads, hadError, lastRaw, overwrote>>

\* decode_slow_value on one slow id and raw value
SlowValueCall ==
    /\ scen = SensorScen
    /\ call.fn = "slow"
    /\ record = NoRecord
    /\ record' = decode_slow_value(call.msg_id, call.raw_value)
    /\ seen' = seen + 1
    /\ UNCHANGED <<parserVars, pending, scen, args, call, running_state, fi,
                   fault, reads, hadError, lastRaw, overwrote>>

NextSensor == PressureCall \/ SlowValueCall

SpecSensor == InitSensor /\ [][NextSensor]_vars

----------------------------------------------------------------------------
(* SpecCache: enrich_state_from_slow_cache applied, from an empty state, to *)
(* any sequence of records that decode_frame returns.                      *)

CacheScen == [kind |-> "cache"]

\* Raw values of the fragments: one, two, three and four decimal digits
CacheRaws == {7, 123, 456, 1000}
\* Slow ids next to the four fragment ids: a diagnostic code, the internal
\* temperature, an id outside the table
OtherSlowIds == {1, 35, 80}

\* The payload of a slow reception: channel, id, raw (little endian), frame
\* info, crc
SlowPayload(id, raw) == <<0, id, raw % 256, raw \div 256, 0, 0>>

\* The frames whose records go through the update: the fragments, other
\* slow ids, a slow reception cut short, and the other four kinds, each with
\* bytes that would be a fragment in a slow reception
CacheFrames ==
    {<<MSG_SLOW_RX, SlowPayload(id, raw)>> : id \in FragmentIds, raw \in CacheRaws}
    \cup {<<MSG_SLOW_RX, SlowPayload(id, 7)>> : id \in OtherSlowIds}
    \cup {<<MSG_SLOW_RX, <<0, 42, 123>>>>}
    \cup {<<id, SlowPayload(42, 123)>> :
            id \in {MSG_FAST_RX, MSG_FAST_ERR, MSG_SLOW_ERR, MSG_SENT_START}}
    \cup {<<MSG_FAST_RX, <<0, 42>>>>}

CacheRecords == {decode_frame(f[1], f[2], FALSE) : f \in CacheFrames}

InitCache ==
    /\ ParserInit
    /\ LiveIdle
    /\ pending = <<>>
    /\ scen = CacheScen
    /\ args = NoArgs
    /\ call = NoCall

\* One call enrich_state_from_slow_cache(running_state, decoded)
EnrichCall ==
    /\ scen = CacheScen
    /\ \E decoded \in CacheRecords :
        /\ record' = decoded
        /\ running_state' = enrich_state_from_slow_cache(running_state, decoded)
        /\ lastRaw' = ApplyLast(lastRaw, decoded)
        /\ overwrote' = Overwrites(lastRaw, decoded)
    /\ UNCHANGED <<parserVars, pending, scen, args, call, seen, fi, fault,
                   reads, hadError>>

NextCache == EnrichCall

SpecCache == InitCache /\ [][NextCache]_vars

----------------------------------------------------------------------------
(* Claims about the framer *)

\* Scenario of kind k has been delivered and feed has returned
ScenDone(k) == scen.kind = k /\ pending = <<>> /\ pc = "idle"

\* C1: round trip.  Feeding build_frame(id, payload) to a fresh parser
\* returns exactly one frame with msg_id = id, data = payload, raw = the
\* built bytes and checksum_ok true, and leaves the buffer empty; feed does
\* so in two loop iterations and raises nothing.
C1_RoundTrip ==
    scen.kind = "roundtrip" =>
        /\ pc # "raised"
        /\ iters <= 2
        /\ ScenDone("roundtrip") =>
            /\ Len(emitted) = 1
            /\ emitted[1].msg_id = scen.id
            /\ emitted[1].data = scen.data
            /\ emitted[1].raw = build_frame(scen.id, scen.data)
            /\ emitted[1].checksum_ok = TRUE
            /\ buf = <<>>

\* C1 witness: the round trip of a payload that holds STX and ETX
C1_Witness ==
    /\ ScenDone("roundtrip")
    /\ scen.data = <<STX, ETX>>
    /\ Len(emitted) = 1

\* C1 witness for the largest payload, 65535 bytes
C1_WitnessLong ==
    /\ ScenDone("roundtrip")
    /\ Len(scen.data) = 65535
    /\ Len(emitted) = 1

\* C2: chunking independence.  Whenever feed has returned, the frames
\* returned so far over all calls, and the buffer, are those of one feed of
\* the whole stream to a fresh parser.
C2_ChunkingIndependence ==
    pc = "idle" =>
        LET whole == FeedRun(stream, <<>>) IN
        /\ whole.exit \in Breaks
        /\ emitted = whole.frames
        /\ buf = whole.buf

\* C2 witness: a frame completed by a later chunk than the one it began in
C2_Witness ==
    /\ pc = "idle"
    /\ frames # <<>>
    /\ entryBuf # <<>>
    /\ lastChunk # <<>>
    /\ Len(stream) > Len(entryBuf) + Len(lastChunk)

\* C3 as stated: a frame whose terminator is not ETX, followed by a valid
\* frame, yields exactly the valid frame, for every ids and payloads.
C3_Original ==
    ScenDone("corrupt") =>
        /\ Len(emitted) = 1
        /\ emitted[1].msg_id = scen.id2
        /\ emitted[1].data = scen.data2
        /\ emitted[1].raw = build_frame(scen.id2, scen.data2)

\* No byte of the corrupted frame after its leading STX equals STX
NoInnerSTX(s) ==
    LET c == Corrupt(build_frame(s.id, s.data), s.bad)
    IN  \A i \in 2..Len(c) : c[i] # STX

\* C3 amended: when no byte of the corrupted frame after its leading STX
\* equals STX (id, DATALEN, payload, checksum, replaced terminator), the
\* corrupted frame followed by a valid frame yields exactly the valid frame
\* and leaves the buffer empty.
C3_ResyncCorrupt ==
    (scen.kind = "corrupt" /\ NoInnerSTX(scen)) =>
        /\ pc # "raised"
        /\ ScenDone("corrupt") =>
            /\ Len(emitted) = 1
            /\ emitted[1].msg_id = scen.id2
            /\ emitted[1].data = scen.data2
            /\ emitted[1].raw = build_frame(scen.id2, scen.data2)
            /\ emitted[1].checksum_ok = TRUE
            /\ buf = <<>>

\* C3 witness: a corrupted frame without inner STX was resynchronised over
C3_Witness ==
    /\ ScenDone("corrupt")
    /\ NoInnerSTX(scen)
    /\ scen.data # <<>>
    /\ scen.data2 # <<>>
    /\ Len(emitted) = 1

\* C4: noise bytes, none equal to STX, followed by one valid frame yield
\* exactly that frame, in one chunk or with the noise in a chunk of its own.
C4_ResyncNoise ==
    scen.kind = "noise" =>
        /\ pc # "raised"
        /\ ScenDone("noise") =>
            /\ Len(emitted) = 1
            /\ emitted[1].msg_id = scen.id
            /\ emitted[1].data = scen.data
            /\ emitted[1].raw = build_frame(scen.id, scen.data)
            /\ emitted[1].checksum_ok = TRUE
            /\ buf = <<>>

\* C4 witness: two noise bytes and the frame in one chunk
C4_Witness ==
    /\ ScenDone("noise")
    /\ Len(scen.noise) = MaxNoise
    /\ ~scen.split
    /\ Len(emitted) = 1

\* C4 witness: the noise in a chunk of its own
C4_WitnessSplit ==
    /\ ScenDone("noise")
    /\ scen.noise # <<>>
    /\ scen.split
    /\ Len(emitted) = 1

\* Each loop iteration appends a frame and removes that frame's bytes from
\* the buffer, or leaves the loop, or strictly shrinks the buffer.
IterationCases ==
    iters > 0 =>
        \/ /\ Len(frames) = Len(prevFrames) + 1
           /\ SubSeq(frames, 1, Len(prevFrames)) = prevFrames
           /\ \E k \in 0..Len(prevBuf) :
                prevBuf = SubSeq(prevBuf, 1, k) \o frames[Len(frames)].raw \o buf
        \/ /\ pc = "idle"
           /\ frames = prevFrames
        \/ /\ pc = "loop"
           /\ frames = prevFrames
           /\ Len(buf) < Len(prevBuf)

\* C5 as stated: the three cases, and the iterations of one call are at most
\* the buffer length at entry to the loop.
C5_Original ==
    /\ pc # "raised"
    /\ IterationCases
    /\ iters <= entryLen

\* C5 amended: every call of feed terminates: each iteration appends a frame
\* and removes its bytes, leaves the loop, or strictly shrinks the buffer,
\* and one call runs at most max(1, buffer length at entry) iterations (the
\* one iteration that leaves the loop runs on an empty buffer too).
C5_Termination ==
    /\ pc # "raised"
    /\ IterationCases
    /\ iters <= Max(1, entryLen)

\* C5 witness: a call that resynchronised, emitted a frame and returned
C5_Witness ==
    /\ pc = "idle"
    /\ iters >= 3
    /\ frames # <<>>

\* b without the bytes before its first STX (empty when it holds none)
RECURSIVE FromFirstSTX(_)
FromFirstSTX(b) ==
    IF b = <<>> THEN <<>>
    ELSE IF b[1] = STX THEN b ELSE FromFirstSTX(Tail(b))

\* b holds a complete candidate whose terminator is ETX
CompleteCandidate(b) ==
    LET c == FromFirstSTX(b) IN
    /\ Len(c) >= 4
    /\ Len(c) >= 6 + c[3] + 256 * c[4]
    /\ c[6 + c[3] + 256 * c[4]] = ETX

\* C6: a buffered candidate whose terminator is ETX is emitted by the
\* iteration that meets it whatever its checksum byte, with checksum_ok true
\* exactly when that byte is (MSG_ID + DATALEN_low + DATALEN_high +
\* sum(DATA)) mod 256, and it leaves the buffer in both cases.
C6_ChecksumAdvisory ==
    (iters > 0 /\ CompleteCandidate(prevBuf)) =>
        LET c == FromFirstSTX(prevBuf)
            dl == c[3] + 256 * c[4]
            f == frames[Len(frames)]
        IN  /\ lastExit = "emit"
            /\ frames = Append(prevFrames, f)
            /\ f.raw = SubSeq(c, 1, 6 + dl)
            /\ f.checksum = c[5 + dl]
            /\ f.checksum_ok =
                (c[5 + dl] = (c[2] + c[3] + c[4] + SumRange(c, 5, 4 + dl)) % 256)
            /\ buf = SubSeq(c, 7 + dl, Len(c))

\* C6 witness: a frame with a wrong checksum byte was emitted and consumed
C6_Witness ==
    /\ iters > 0
    /\ CompleteCandidate(prevBuf)
    /\ lastExit = "emit"
    /\ ~frames[Len(frames)].checksum_ok

\* C6 witness for a right checksum over a payload
C6_WitnessOk ==
    /\ iters > 0
    /\ lastExit = "emit"
    /\ frames[Len(frames)].checksum_ok
    /\ frames[Len(frames)].data # <<>>

\* The wire layout of an emitted frame
FrameShape(f) ==
    LET n == Len(f.data) IN
    /\ Len(f.raw) = 4 + n + 1 + 1
    /\ f.raw[1] = STX
    /\ f.raw[Len(f.raw)] = ETX
    /\ f.msg_id = f.raw[2]
    /\ n = f.raw[3] + 256 * f.raw[4]
    /\ f.data = SubSeq(f.raw, 5, 4 + n)
    /\ f.checksum = f.raw[5 + n]

\* C7: every frame emitted after any sequence of feeds has the wire layout
\* STX, MSG_ID, DATALEN (little-endian), DATA, CHECKSUM, ETX.
C7_FrameLayout ==
    /\ \A i \in 1..Len(emitted) : FrameShape(emitted[i])
    /\ \A i \in 1..Len(frames) : FrameShape(frames[i])

\* C7 witness: a frame with a payload was returned
C7_Witness ==
    \E i \in 1..Len(emitted) : emitted[i].data # <<>>

----------------------------------------------------------------------------
(* Claims about the decoder *)

\* decode_frame has been called: in SpecDecode on `call`, in a live session
\* on a frame
Decoded == record # NoRecord

\* C8: no input is fatal.  feed returns normally after every chunk, every
\* decode_frame call returns a record with a type field, the cache update
\* completes, and no exception of feed, decode_frame or the update ends a
\* live session; the session goes on to the next frame after a malformed
\* one.  (The one step of the loop that can raise is _print_human, outside
\* these three, and only without --quiet.)
C8_NoInputFatal ==
    /\ pc # "raised"
    /\ fault \in {"none", "print"}
    /\ fault = "print" => ~args.quiet
    /\ Decoded => HasKey(record, "type")

\* C8 witness: a record with an error was decoded and a later frame of the
\* live session was processed without one
C8_Witness ==
    /\ reads > 0
    /\ hadError
    /\ seen >= 2
    /\ fault = "none"
    /\ HasKey(record, "type")
    /\ ~HasKey(record, "error")

\* C8 witness: a resync after a bad terminator inside a live session that
\* went on to process a frame
C8_WitnessResync ==
    /\ reads > 0
    /\ lastExit = "clear"
    /\ iters >= 3
    /\ seen >= 1
    /\ fault = "none"

\* The layout lengths of section 4.2
NibbleCountOf(data) == (data[2] \div 16) % 16
FastBaseLen(data) == 2 + ((NibbleCountOf(data) + 1) \div 2) + 1

TooShortFor(id, data) ==
    CASE id = 149 -> Len(data) < 3 \/ Len(data) < FastBaseLen(data)
      [] id = 150 -> Len(data) < 6
      [] id \in {151, 152} -> Len(data) < 2
      [] OTHER -> FALSE

KindOf(id) ==
    CASE id = 149 -> "fast_rx"
      [] id = 150 -> "slow_rx"
      [] id = 151 -> "fast_error"
      [] id = 152 -> "slow_error"
      [] OTHER -> "other"

\* The record is of kind k and carries the condition text
ShortRecord(k, text) ==
    /\ HasKey(record, "type")
    /\ record["type"] = k
    /\ HasKey(record, "error")
    /\ record["error"] = text

\* C9 as stated: a payload too short for its kind's layout yields a record
\* of that kind carrying "payload too short".
C9_Original ==
    (Decoded /\ TooShortFor(call.msg_id, call.data)) =>
        ShortRecord(KindOf(call.msg_id), "payload too short")

\* C9 amended: a payload too short for its kind's layout yields a record of
\* that kind carrying an explicit condition and decode does not fail; the
\* condition is "payload too short" for slow reception shorter than 6, both
\* error kinds shorter than 2 and fast reception shorter than 3, and
\* "payload length mismatch" for a fast reception of 3 or more bytes that
\* is shorter than 2 + ceil(nibble_count/2) + 1.
C9_ShortPayloads ==
    (Decoded /\ TooShortFor(call.msg_id, call.data)) =>
        /\ fault = "none"
        /\ ShortRecord(KindOf(call.msg_id),
                IF call.msg_id = 149 /\ Len(call.data) >= 3
                THEN "payload length mismatch" ELSE "payload too short")

\* C9 witness: a fast reception of 3 or more bytes, too short for its
\* nibble count
C9_Witness ==
    /\ Decoded
    /\ call.msg_id = 149
    /\ Len(call.data) >= 3
    /\ TooShortFor(call.msg_id, call.data)
    /\ HasKey(record, "error")

\* C9 witness: a slow reception of 5 bytes
C9_WitnessSlow ==
    /\ Decoded
    /\ call.msg_id = 150
    /\ Len(call.data) = 5
    /\ HasKey(record, "error")

UpperHexDigits ==
    {"0", "1", "2", "3", "4", "5", "6", "7", "8", "9", "A", "B", "C", "D", "E", "F"}

\* The value of one upper-case hex digit
HexValue(ch) ==
    CASE ch = "0" -> 0 [] ch = "1" -> 1 [] ch = "2" -> 2 [] ch = "3" -> 3
      [] ch = "4" -> 4 [] ch = "5" -> 5 [] ch = "6" -> 6 [] ch = "7" -> 7
      [] ch = "8" -> 8 [] ch = "9" -> 9 [] ch = "A" -> 10 [] ch = "B" -> 11
      [] ch = "C" -> 12 [] ch = "D" -> 13 [] ch = "E" -> 14 [] ch = "F" -> 15

\* hex is the upper-case hex text of data, two digits per byte
IsUpperHexOf(hex, data) ==
    /\ Len(hex) = 2 * Len(data)
    /\ \A i \in 1..Len(hex) : hex[i] \in UpperHexDigits
    /\ \A j \in 1..Len(data) :
        16 * HexValue(hex[2 * j - 1]) + HexValue(hex[2 * j]) = data[j]

\* C10: dispatch.  The record's type is fast_rx exactly for msg_id 0x95,
\* slow_rx for 0x96, fast_error for 0x97, slow_error for 0x98; every other
\* msg_id gives a record of type other that holds nothing but the message
\* id and the payload as upper-case hex.
C10_Dispatch ==
    Decoded =>
        /\ HasKey(record, "type")
        /\ (record["type"] = "fast_rx") <=> (call.msg_id = 149)
        /\ (record["type"] = "slow_rx") <=> (call.msg_id = 150)
        /\ (record["type"] = "fast_error") <=> (call.msg_id = 151)
        /\ (record["type"] = "slow_error") <=> (call.msg_id = 152)
        /\ (record["type"] = "other") <=> (call.msg_id \notin {149, 150, 151, 152})
        /\ record["msg_id"] = call.msg_id
        /\ IsUpperHexOf(record["raw_data_hex"], call.data)
        /\ record["type"] = "other" =>
            DOMAIN record = {"pc_time", "msg_id", "msg_id_hex", "raw_data_hex", "type"}

\* C10 witness: the control code 0x74 with a payload decodes to other
C10_Witness ==
    /\ Decoded
    /\ call.msg_id = 116
    /\ call.data = <<0, 165, 255>>
    /\ record["type"] = "other"
    /\ record["raw_data_hex"] = <<"0", "0", "A", "5", "F", "F">>

----------------------------------------------------------------------------
(* Claims about the timestamp and the sensor semantics *)

\* The length of a payload of a recognized kind without its timestamp
BaseLenOf(id, data) ==
    CASE id = 149 -> FastBaseLen(data)
      [] id = 150 -> 6
      [] id \in {151, 152} -> 2

\* ts is the unsigned little-endian value of the last 8 bytes of data: byte
\* k of the value (k = 0 the least significant) is byte k of the tail
IsLittleEndianTail(ts, data) ==
    /\ Len(ts) = 4
    /\ \A k \in 0..7 :
        (ts[(k \div 2) + 1] \div (IF k % 2 = 0 THEN 1 ELSE 256)) % 256
            = data[Len(data) - 8 + k + 1]

\* A payload of a recognized kind that is long enough for its layout
Accepted == Decoded /\ call.msg_id \in KnownIds
            /\ ~TooShortFor(call.msg_id, call.data)

\* C11: timestamp inference by length.  For the four recognized kinds a
\* payload of exactly base_len + 8 bytes decodes with timestamp_us equal to
\* the little-endian unsigned value of its last 8 bytes, and a payload of any
\* other accepted length (base_len included) decodes with timestamp_us None.
C11_TimestampInference ==
    Accepted =>
        /\ HasKey(record, "timestamp_us")
        /\ IF Len(call.data) = BaseLenOf(call.msg_id, call.data) + 8
           THEN IsLittleEndianTail(record["timestamp_us"], call.data)
           ELSE record["timestamp_us"] = None

\* C11 witness: a fast reception of base_len + 8 bytes whose timestamp has a
\* non-zero most significant byte
C11_Witness ==
    /\ Accepted
    /\ call.msg_id = 149
    /\ Len(call.data) = FastBaseLen(call.data) + 8
    /\ record["timestamp_us"] # None
    /\ record["timestamp_us"][4] >= 256

\* C11 witness: an error payload longer than base_len + 8 has no timestamp
C11_WitnessLonger ==
    /\ Accepted
    /\ call.msg_id = 152
    /\ Len(call.data) > 10
    /\ record["timestamp_us"] = None

\* The pressure functions have been called on call.digit_value
PressureDone == scen = SensorScen /\ Decoded /\ call.fn = "pressure"

\* C12: pressure state over the 12-bit domain.  INITIALIZATION for 0,
\* LOW_CLAMP for 1, HIGH_CLAMP for 4088 and 4089, ERROR_CODE_4090 for 4090,
\* OK for every other value: 4090 is not taken for a high clamp, and the
\* values above it are OK.
C12_PressureState ==
    PressureDone =>
        LET d == call.digit_value
            st == record.pressure_state
        IN  /\ (st = "INITIALIZATION") <=> (d = 0)
            /\ (st = "LOW_CLAMP") <=> (d = 1)
            /\ (st = "HIGH_CLAMP") <=> (d \in {4088, 4089})
            /\ (st = "ERROR_CODE_4090") <=> (d = 4090)
            /\ (st = "OK") <=> (d \in 2..4087 \/ d > 4090)

\* C12 witness: the error code, just above the high-clamp range
C12_Witness ==
    /\ PressureDone
    /\ call.digit_value = 4090
    /\ record.pressure_state = "ERROR_CODE_4090"

\* C12 witness: the top of the domain is OK
C12_WitnessTop ==
    /\ PressureDone
    /\ call.digit_value = 4095
    /\ record.pressure_state = "OK"

\* A pressure in units of 1e-5 bar rounded to three decimals (units of 1e-3
\* bar), for a pressure that is not negative
Round3(p) == (p + 50) \div 100

\* The transfer function is the line through -1.65 bar at 0 with the slope
\* 0.00825 bar per digit
OnTransferLine ==
    PressureDone =>
        /\ call.digit_value = 0 => record.pressure_bar = -165000
        /\ record.pressure_bar = 825 * call.digit_value - 165000

\* C13 as stated: the transfer function 0.00825 * digit_value - 1.65, and
\* about 15.257 bar for the digit value 2048.
C13_Original ==
    /\ OnTransferLine
    /\ (PressureDone /\ call.digit_value = 2048) =>
            Round3(record.pressure_bar) = 15257

\* C13 amended: the transfer function 0.00825 * digit_value - 1.65 for every
\* 12-bit digit value, and 15.246 bar for the digit value 2048.
C13_TransferFunction ==
    /\ OnTransferLine
    /\ (PressureDone /\ call.digit_value = 2048) =>
            /\ record.pressure_bar = 1524600
            /\ Round3(record.pressure_bar) = 15246

\* C13 witness: the digit value 2048
C13_Witness ==
    /\ PressureDone
    /\ call.digit_value = 2048
    /\ record.pressure_state = "OK"
    /\ record.pressure_bar > 0

----------------------------------------------------------------------------
(* Claims about the correlation cache *)

\* A slow_rx record with slow id `id` has gone through the update
Applied(id) == lastRaw[id] # None

\* C14: correlation cache assembly.  The state holds serial_number exactly
\* when a slow_rx of id 0x2A and one of id 0x29 have been applied, in either
\* order; when the last values are 123 (0x2A) and 456 (0x29) the serial
\* number is "123456".
C14_CacheAssembly ==
    scen = CacheScen =>
        /\ HasKey(running_state, "serial_number") <=> (Applied(42) /\ Applied(41))
        /\ (lastRaw[42] = Some(123) /\ lastRaw[41] = Some(456)) =>
                running_state["serial_number"] = <<"1", "2", "3", "4", "5", "6">>

\* C14 witness: (0x2A, 123) and (0x29, 456) applied, the serial number is
\* there
C14_Witness ==
    /\ scen = CacheScen
    /\ lastRaw[42] = Some(123)
    /\ lastRaw[41] = Some(456)
    /\ HasKey(running_state, "serial_number")

\* C14 witness: only 0x2A applied, with both date fragments: no serial
\* number
C14_WitnessOne ==
    /\ scen = CacheScen
    /\ Applied(42) /\ ~Applied(41) /\ Applied(43) /\ Applied(44)
    /\ ~HasKey(running_state, "serial_number")

\* A record the update has nothing to store from: not a slow_rx, a slow_rx
\* with a short-payload error, or a slow_rx of another slow id
Irrelevant(decoded) ==
    \/ decoded["type"] # "slow_rx"
    \/ HasKey(decoded, "error")
    \/ decoded["slow_id"] \notin {41, 42, 43, 44}

\* C15: the update is a no-op for irrelevant records.  A call with a record
\* that is not a slow_rx, a slow_rx with a short-payload error or a slow_rx
\* of an id other than 0x29..0x2C leaves every key and value of the state as
\* it was, in every reachable state.
C15_NoOpIrrelevant ==
    [][(scen = CacheScen /\ Irrelevant(record'))
            => running_state' = running_state]_vars

\* C15 witness: an irrelevant record applied last to a state that holds all
\* four fragments and both derived values
C15_Witness ==
    /\ scen = CacheScen
    /\ Decoded
    /\ Irrelevant(record)
    /\ DOMAIN running_state =
            {"serial_first3", "serial_last3", "date_first2", "date_last3",
             "serial_number", "date_code"}

\* C15 witness: a slow_rx of an id outside the four applied last
C15_WitnessOtherId ==
    /\ scen = CacheScen
    /\ Decoded
    /\ record["type"] = "slow_rx"
    /\ ~HasKey(record, "error")
    /\ record["slow_id"] = 35
    /\ HasKey(running_state, "serial_number")

\* The fragment roles: the slow id and the key it is stored under
Roles == {<<41, "serial_last3">>, <<42, "serial_first3">>,
          <<43, "date_last3">>, <<44, "date_first2">>}

\* Every stored fragment is the raw value of the most recent slow_rx of its
\* role, and the derived values are those of the most recent fragments
FragmentsCurrent ==
    /\ \A r \in Roles :
        /\ HasKey(running_state, r[2]) <=> Applied(r[1])
        /\ Applied(r[1]) => running_state[r[2]] = lastRaw[r[1]][1]
    /\ HasKey(running_state, "serial_number") =>
        /\ Applied(42) /\ Applied(41)
        /\ running_state["serial_number"]
                = combine_serial(lastRaw[42][1], lastRaw[41][1])
    /\ HasKey(running_state, "date_code") =>
        /\ Applied(44) /\ Applied(43)
        /\ running_state["date_code"]
                = decode_date_code(lastRaw[44][1], lastRaw[43][1])

\* C16: last value wins.  After any sequence of updates each stored fragment
\* equals the raw value of the most recent slow_rx applied for its role, the
\* serial number and the date code (when present) are those of the most
\* recent fragments, and no update removes a fragment or a derived value.
C16_LastValueWins ==
    /\ [](scen = CacheScen => FragmentsCurrent)
    /\ [][scen = CacheScen =>
            DOMAIN running_state \subseteq DOMAIN running_state']_vars

\* C16 witness: the last update replaced the first serial fragment by a
\* different value while a serial number was there
C16_Witness ==
    /\ scen = CacheScen
    /\ overwrote
    /\ record["type"] = "slow_rx"
    /\ record["slow_id"] = 42
    /\ HasKey(running_state, "serial_number")
    /\ HasKey(running_state, "date_code")

DecimalDigits == {"0", "1", "2", "3", "4", "5", "6", "7", "8", "9"}

\* The value of a string of decimal digits
RECURSIVE DecimalValue(_)
DecimalValue(str) ==
    IF str = <<>> THEN 0
    ELSE 10 * DecimalValue(SubSeq(str, 1, Len(str) - 1)) + HexValue(str[Len(str)])

\* C17: whenever the state holds serial_number it is a string of exactly 6
\* decimal digits, the first three the zero-padded first3 fragment and the
\* last three the zero-padded last3 fragment, for every pair of raw values a
\* slow reception can carry.
C17_SerialSixDigits ==
    (scen = CacheScen /\ HasKey(running_state, "serial_number")) =>
        LET sn == running_state["serial_number"] IN
        /\ Len(sn) = 6
        /\ \A i \in 1..Len(sn) : sn[i] \in DecimalDigits
        /\ DecimalValue(SubSeq(sn, 1, 3)) = running_state["serial_first3"]
        /\ DecimalValue(SubSeq(sn, 4, 6)) = running_state["serial_last3"]

\* C17, the case that holds: with both fragments below 1000 the serial
\* number has exactly 6 decimal digits
C17_SixDigitsBelow1000 ==
    (/\ scen = CacheScen
     /\ HasKey(running_state, "serial_number")
     /\ running_state["serial_first3"] < 1000
     /\ running_state["serial_last3"] < 1000) =>
        LET sn == running_state["serial_number"] IN
        /\ Len(sn) = 6
        /\ DecimalValue(SubSeq(sn, 1, 3)) = running_state["serial_first3"]
        /\ DecimalValue(SubSeq(sn, 4, 6)) = running_state["serial_last3"]

\* C17: the state reached by (0x2A, 1000) and (0x29, 456): a serial number
\* of 7 characters
C17_SevenCharacters ==
    /\ scen = CacheScen
    /\ lastRaw[42] = Some(1000)
    /\ lastRaw[41] = Some(456)
    /\ running_state["serial_number"] = <<"1", "0", "0", "0", "4", "5", "6">>

\* v is a string (a sequence of pieces), not a record of fields
IsText(v) == v \in Seq(STRING)

\* dc is the text "YY=<yy>, CW=<ww>, D=<d>" where yy, ww and d are decimal
\* numerals of at least 2, 2 and 1 digits with the values year, week and day
IsDateText(dc, year, week, day) ==
    \E i \in 1..Len(dc) : \E j \in 1..Len(dc) :
        /\ 1 < i /\ i < j /\ j < Len(dc)
        /\ dc[1] = "YY=" /\ dc[i] = ", CW=" /\ dc[j] = ", D="
        /\ \A k \in (2..(i - 1)) \cup ((i + 1)..(j - 1)) \cup ((j + 1)..Len(dc)) :
                dc[k] \in DecimalDigits
        /\ i - 2 >= 2 /\ DecimalValue(SubSeq(dc, 2, i - 1)) = year
        /\ j - i - 1 >= 2 /\ DecimalValue(SubSeq(dc, i + 1, j - 1)) = week
        /\ DecimalValue(SubSeq(dc, j + 1, Len(dc))) = day

----------------------------------------------------------------------------
(* Claims about the slow values and the error records *)

\* decode_slow_value has been called on call.msg_id and call.raw_value
SlowDone == scen = SensorScen /\ Decoded /\ call.fn = "slow"

\* The 14 ids of the slow-id table of section 4.3
TableIds == {1, 3, 4, 5, 6, 7, 8, 9, 10, 35, 41, 42, 43, 44}

\* name is `prefix` followed by the two upper-case hex digits of id
IsUnknownName(name, prefix, id) ==
    /\ Len(name) = 3
    /\ name[1] = prefix
    /\ name[2] \in UpperHexDigits /\ name[3] \in UpperHexDigits
    /\ 16 * HexValue(name[2]) + HexValue(name[3]) = id

\* C19 as stated: for every slow id outside the table and every raw value
\* decode_slow_value returns the name Unknown_0x{id:02X}, and for every id
\* the returned raw is the input raw value.
C19_Original ==
    SlowDone =>
        /\ record.raw = call.raw_value
        /\ call.msg_id \notin TableIds =>
                IsUnknownName(record.name, "Unknown_0x", call.msg_id)

\* C19 amended: for every slow id outside the table and every raw value
\* decode_slow_value returns the name UnknownSlowId_0x{id:02X}, and for
\* every id the returned raw is the input raw value.
C19_UnknownSlowIds ==
    SlowDone =>
        /\ record.raw = call.raw_value
        /\ record.msg_id = call.msg_id
        /\ call.msg_id \notin TableIds =>
                IsUnknownName(record.name, "UnknownSlowId_0x", call.msg_id)
        /\ call.msg_id \in TableIds => Len(record.name) = 1

\* C19 witness: the unknown id 0x0B with the largest raw value
C19_Witness ==
    /\ SlowDone
    /\ call.msg_id = 11
    /\ call.raw_value = 65535
    /\ record.name = <<"UnknownSlowId_0x", "0", "B">>
    /\ record.raw = 65535

\* An error record of a payload long enough (SpecDecode)
ErrorKindDone ==
    /\ scen = DecodeScen
    /\ Decoded
    /\ call.msg_id \in {151, 152}
    /\ Len(call.data) >= 2

\* Bits [hi:lo] of a byte
Bits(b, hi, lo) == (b % (2 ^ (hi + 1))) \div (2 ^ lo)

\* The text table of the record's channel kind
TableOf(id) == IF id = 151 THEN FAST_ERRTYPE_TEXT ELSE SLOW_ERRTYPE_TEXT

\* errtype is bits[5:4] of byte1, and a fast_error reports bits[3:0] as
\* framing_error_code
ErrorBits ==
    ErrorKindDone =>
        /\ record["errtype"] = Bits(call.data[2], 5, 4)
        /\ call.msg_id = 151 =>
                record["framing_error_code"] = Bits(call.data[2], 3, 0)

\* C20: error-type text.  For fast_error and slow_error records errtype is
\* bits[5:4] of byte1, each of the four errtype values has an entry in the
\* text table of its channel kind and errtype_text is that entry; a
\* fast_error also reports framing_error_code = bits[3:0] of byte1.
C20_ErrtypeText ==
    /\ ErrorBits
    /\ ErrorKindDone =>
        /\ record["errtype"] \in DOMAIN TableOf(call.msg_id)
        /\ record["errtype_text"] = <<TableOf(call.msg_id)[record["errtype"]]>>

\* C20, the cases that hold: the bits, the text of every fast errtype and
\* of the slow errtypes 0..2, and "Unknown(3)" for the slow errtype 3
C20_ErrtypeTextButSlow3 ==
    /\ ErrorBits
    /\ ErrorKindDone =>
        IF call.msg_id = 152 /\ record["errtype"] = 3
        THEN record["errtype_text"] = <<"Unknown(", "3", ")">>
        ELSE /\ record["errtype"] \in DOMAIN TableOf(call.msg_id)
             /\ record["errtype_text"]
                    = <<TableOf(call.msg_id)[record["errtype"]]>>

\* C20: the slow_error record of byte1 = 0x35 (errtype 3)
C20_SlowErrtype3 ==
    /\ ErrorKindDone
    /\ call.msg_id = 152
    /\ call.data[2] = 53
    /\ record["errtype"] = 3

\* The 11 diagnostic codes of the table of section 4.3
DiagCodes == {0, 2304, 2305, 4033, 4034, 3841, 3842, 3843, 3844, 3333, 3845}

\* The value of a string of upper-case hex digits
RECURSIVE HexNumber(_)
HexNumber(str) ==
    IF str = <<>> THEN 0
    ELSE 16 * HexNumber(SubSeq(str, 1, Len(str) - 1)) + HexValue(str[Len(str)])

\* text is `prefix` followed by at least `width` upper-case hex digits of
\* the value n
IsHexText(text, prefix, width, n) ==
    /\ Len(text) >= 1 + width
    /\ text[1] = prefix
    /\ \A i \in 2..Len(text) : text[i] \in UpperHexDigits
    /\ Len(text) > 1 + width => text[2] # "0"
    /\ n = HexNumber(SubSeq(text, 2, Len(text)))

\* C21: diagnostic lookup.  For slow id 0x01 the text is the table entry
\* when the raw code is one of the 11 table keys (0x000 "No error", 0xFC1
\* "IC internal hardware error"), and "Unknown diagnostic code 0x" followed
\* by the code in at least three upper-case hex digits for every other raw
\* code (0x999 gives "Unknown diagnostic code 0x999").
C21_DiagnosticLookup ==
    (SlowDone /\ call.msg_id = 1) =>
        /\ record.text # None
        /\ call.raw_value \in DiagCodes <=> Len(record.text) = 1
        /\ call.raw_value \in DiagCodes =>
                record.text = <<DIAG_ERROR_TEXT[call.raw_value]>>
        /\ call.raw_value = 0 => record.text = <<"No error">>
        /\ call.raw_value = 4033 => record.text = <<"IC internal hardware error">>
        /\ call.raw_value \notin DiagCodes =>
                IsHexText(record.text, "Unknown diagnostic code 0x", 3,
                          call.raw_value)
        /\ call.raw_value = 2457 =>
                record.text = <<"Unknown diagnostic code 0x", "9", "9", "9">>

\* C21 witness: the unknown code 0x999
C21_Witness ==
    /\ SlowDone
    /\ call.msg_id = 1
    /\ call.raw_value = 2457
    /\ Len(record.text) = 4

\* C21 witness: the table code 0xFC1
C21_WitnessKnown ==
    /\ SlowDone
    /\ call.msg_id = 1
    /\ call.raw_value = 4033
    /\ record.text = <<"IC internal hardware error">>

----------------------------------------------------------------------------
(* Claims about the framer's buffer *)

\* The bytes the last loop iteration removed from the front of the buffer
Removed == SubSeq(prevBuf, 1, Len(prevBuf) - Len(buf))

\* The positions of the start markers in s
StxAt(s) == {i \in 1..Len(s) : s[i] = STX}

\* The candidate at the first STX of b is complete and its last byte is not
\* ETX
FailedTerminator(b) ==
    LET c == FromFirstSTX(b) IN
    /\ Len(c) >= 4
    /\ Len(c) >= 6 + c[3] + 256 * c[4]
    /\ c[6 + c[3] + 256 * c[4]] # ETX

\* C22: start markers are never lost silently.  What a loop iteration
\* removes is a prefix of the buffer; an iteration that emits a frame removes
\* bytes different from STX followed by the frame; any other iteration
\* removes no STX at all, or exactly one, which is then the last byte it
\* removes, the first STX of the buffer and the leading byte of a complete
\* candidate whose terminator check failed (one byte of the candidate goes,
\* never more).
C22_StartMarkersKept ==
    iters > 0 =>
        /\ prevBuf = Removed \o buf
        /\ IF frames # prevFrames
           THEN LET raw == frames[Len(frames)].raw
                    n == Len(Removed) - Len(raw)
                IN  /\ n >= 0
                    /\ SubSeq(Removed, n + 1, Len(Removed)) = raw
                    /\ StxAt(SubSeq(Removed, 1, n)) = {}
           ELSE \/ StxAt(Removed) = {}
                \/ /\ StxAt(Removed) = {Len(Removed)}
                   /\ FailedTerminator(prevBuf)
                   /\ buf = Tail(FromFirstSTX(prevBuf))

\* C22 witness: a failed terminator check dropped one start marker and kept
\* a later one in the buffer
C22_Witness ==
    /\ iters > 0
    /\ lastExit = "resync"
    /\ StxAt(Removed) = {Len(Removed)}
    /\ StxAt(buf) # {}

\* C22 witness: noise without a start marker was cleared
C22_WitnessClear ==
    /\ iters > 0
    /\ lastExit = "clear"
    /\ Len(Removed) >= 2
    /\ buf = <<>>

\* C23: buffer invariant between calls.  After every return of feed the
\* buffer is empty, or starts with STX and holds fewer than 4 bytes, or
\* starts with STX and holds fewer bytes than the 6 + DATALEN its header
\* declares; so it holds no complete candidate and at most 65540 bytes.
C23_BufferBetweenCalls ==
    pc = "idle" =>
        /\ \/ buf = <<>>
           \/ buf[1] = STX /\ Len(buf) < 4
           \/ buf[1] = STX /\ Len(buf) >= 4
                /\ Len(buf) < 6 + buf[3] + 256 * buf[4]
        /\ ~CompleteCandidate(buf)
        /\ ~FailedTerminator(buf)
        /\ Len(buf) <= 65540

\* C23 witness: feed returned with a header whose body is not there yet
C23_Witness ==
    /\ pc = "idle"
    /\ iters > 0
    /\ Len(buf) >= 4
    /\ buf[1] = STX
    /\ lastExit = "wait_body"

\* C23 witness: feed returned with less than a header after dropping noise
C23_WitnessHeader ==
    /\ pc = "idle"
    /\ lastExit = "wait_hdr"
    /\ Len(buf) < Len(prevBuf)
    /\ buf # <<>>

\* The last call of feed was given an empty chunk and has returned
EmptyFeedDone == pc = "idle" /\ iters > 0 /\ lastChunk = <<>>

\* C24: feeding an empty chunk, in any reachable parser state, returns no
\* frames and leaves the buffer as it was before the call.
C24_EmptyChunk ==
    EmptyFeedDone =>
        /\ frames = <<>>
        /\ buf = entryBuf

\* C24 witness: an empty chunk fed to a parser that holds an incomplete
\* candidate with its header
C24_Witness ==
    /\ EmptyFeedDone
    /\ Len(entryBuf) >= 4
    /\ buf = entryBuf

\* C24 witness: an empty chunk fed to a parser with an empty buffer
C24_WitnessEmpty ==
    /\ EmptyFeedDone
    /\ entryBuf = <<>>
    /\ stream # <<>>

\* C25: back-to-back frames.  A fresh parser fed the concatenation of k >= 1
\* frames built by build_frame in one call returns exactly those k frames in
\* stream order, each with checksum_ok true, and its buffer is empty.
C25_BackToBack ==
    ScenDone("burst") =>
        /\ Len(emitted) = Len(scen.msgs)
        /\ frames = emitted
        /\ \A i \in 1..Len(scen.msgs) :
            /\ i <= Len(emitted)
            /\ emitted[i].msg_id = scen.msgs[i].id
            /\ emitted[i].data = scen.msgs[i].data
            /\ emitted[i].checksum_ok
            /\ emitted[i].raw = build_frame(scen.msgs[i].id, scen.msgs[i].data)
        /\ buf = <<>>

\* C25 witness: three frames in one call, the second with markers in its
\* payload
C25_Witness ==
    /\ ScenDone("burst")
    /\ Len(scen.msgs) = 3
    /\ scen.msgs[2].data = <<ETX, STX>>
    /\ scen.msgs[3].id = STX
    /\ Len(emitted) = 3

----------------------------------------------------------------------------
(* Claims about the fast and slow records *)

\* An accepted fast reception (SpecDecode)
FastAccepted == scen = DecodeScen /\ Accepted /\ call.msg_id = 149

\* Nibble j (0-based) of the packed data bytes of payload `data`: the low
\* nibble of data byte j div 2 comes first, the high nibble with `swap`
PackedNibble(data, j, swap) ==
    LET byte == data[3 + (j \div 2)]
        lo == byte % 16
        hi == byte \div 16
    IN  IF (j % 2 = 0) = swap THEN hi ELSE lo

\* C26: fast-reception nibble unpacking.  For every accepted fast payload
\* data_nibble_count is the high nibble of byte1, data_nibbles has exactly
\* that many entries, each in 0..15, and entries 2i and 2i+1 are the low and
\* the high nibble of data byte i, or the high and the low one with the swap
\* flag; with an odd count the second nibble of the last data byte is
\* dropped.
C26_NibbleUnpacking ==
    FastAccepted =>
        LET count == call.data[2] \div 16
            nibbles == record["data_nibbles"]
        IN  /\ record["data_nibble_count"] = count
            /\ count \in 0..15
            /\ Len(nibbles) = count
            /\ \A j \in 0..(count - 1) :
                /\ nibbles[j + 1] \in 0..15
                /\ nibbles[j + 1] = PackedNibble(call.data, j, call.swap)

\* C26 witness: an odd count with the swap flag set and a data byte whose
\* nibbles differ
C26_Witness ==
    /\ FastAccepted
    /\ call.swap
    /\ record["data_nibble_count"] = 3
    /\ call.data[3] = 18
    /\ call.data[4] = 165
    /\ record["data_nibbles"] = <<1, 2, 10>>

\* C26 witness: six nibbles in the default order
C26_WitnessSix ==
    /\ FastAccepted
    /\ ~call.swap
    /\ record["data_nibble_count"] = 6
    /\ record["data_nibbles"] = <<2, 1, 5, 10, 0, 0>>

\* An accepted slow reception (SpecDecode)
SlowAccepted == scen = DecodeScen /\ Accepted /\ call.msg_id = 150

\* The position (1-based) of the CRC byte of an accepted fast payload
FastCrcPos(data) == FastBaseLen(data)

\* The payload with its CRC field changed so that the comparison of the two
\* sub-fields turns out the other way: for a fast payload the low nibble of
\* the CRC byte, for a slow payload bits 0-5 of byte5
OtherCrc(id, data) ==
    IF id = 149 THEN
        LET p == FastCrcPos(data)
            hi == data[p] \div 16
            lo == data[p] % 16
        IN  [data EXCEPT ![p] = 16 * hi + (IF lo = hi THEN (lo + 1) % 16 ELSE hi)]
    ELSE
        LET rx == data[5] % 64
            calc == data[6] % 64
        IN  [data EXCEPT ![6] = (data[6] - calc)
                                    + (IF calc = rx THEN (calc + 1) % 64 ELSE rx)]

\* The fields of a record that show the CRC sub-fields or the payload bytes
CrcFields == {"crc_ok", "crc_rx", "crc_calc", "raw_data_hex"}

\* r1 and r2 have the same fields and agree on all but the CRC fields
SameButCrc(r1, r2) ==
    /\ DOMAIN r1 = DOMAIN r2
    /\ \A k \in DOMAIN r1 \ CrcFields : r1[k] = r2[k]

\* C27: the sub-protocol CRC is reported, never enforced.  A fast record's
\* crc_ok is true exactly when the low nibble of the CRC byte equals its high
\* nibble, a slow record's exactly when bits 0-5 of byte4 equal byte5 masked
\* to 6 bits; the payload that differs only in its CRC field, so that crc_ok
\* comes out the other way, decodes to a record with the same fields, equal
\* in all but the CRC fields and the payload hex.
C27_CrcReported ==
    /\ FastAccepted =>
            record["crc_ok"]
                = (call.data[FastCrcPos(call.data)] % 16
                    = call.data[FastCrcPos(call.data)] \div 16)
    /\ SlowAccepted =>
            record["crc_ok"] = (call.data[5] % 64 = call.data[6] % 64)
    /\ (FastAccepted \/ SlowAccepted) =>
            LET other == decode_frame(call.msg_id,
                                      OtherCrc(call.msg_id, call.data), call.swap)
            IN  /\ ~HasKey(record, "error")
                /\ other["crc_ok"] # record["crc_ok"]
                /\ SameButCrc(record, other)

\* C27 witness: a fast record of three nibbles with crc_ok false and a
\* pressure decoded
C27_Witness ==
    /\ FastAccepted
    /\ ~record["crc_ok"]
    /\ HasKey(record["sensor"], "pressure_bar")
    /\ record["timestamp_us"] # None

\* C27 witness: a slow record with crc_ok false
C27_WitnessSlow ==
    /\ SlowAccepted
    /\ ~record["crc_ok"]
    /\ record["slow_id"] = 42

\* The fast payload with the two nibbles of every packed data byte exchanged
\* (the bytes between the status byte and the CRC byte)
ExchangeNibbles(data) ==
    [i \in 1..Len(data) |->
        IF i >= 3 /\ i < FastCrcPos(data)
        THEN 16 * (data[i] % 16) + (data[i] \div 16)
        ELSE data[i]]

\* The fields of a fast record that depend on the nibble order
NibbleFields == {"digit_value", "rolling_counter", "invert_ok"}

\* r1 and r2 hold the same nibbles and agree on which of the dependent
\* sensor fields are present and on their values
SameNibbleFields(r1, r2) ==
    /\ r1["data_nibbles"] = r2["data_nibbles"]
    /\ \A k \in NibbleFields :
        /\ HasKey(r1["sensor"], k) = HasKey(r2["sensor"], k)
        /\ HasKey(r1["sensor"], k) => r1["sensor"][k] = r2["sensor"][k]

\* C28: the nibble-order flag is a byte-wise nibble exchange.  The record of
\* an accepted fast payload has the same data_nibbles, digit_value,
\* rolling_counter and invert_ok as the record of the payload with the nibbles
\* of every packed data byte exchanged, decoded with the opposite flag (so the
\* flag set on the payload equals the flag clear on the exchanged payload);
\* exchanging twice gives back the payload and hence the original record.
C28_SwapIsExchange ==
    FastAccepted =>
        LET ex == ExchangeNibbles(call.data)
            set == decode_frame(call.msg_id, call.data, TRUE)
            clear == decode_frame(call.msg_id, ex, FALSE)
        IN  /\ record = decode_frame(call.msg_id, call.data, call.swap)
            /\ SameNibbleFields(set, clear)
            /\ SameNibbleFields(record, decode_frame(call.msg_id, ex, ~call.swap))
            /\ ExchangeNibbles(ex) = call.data
            /\ decode_frame(call.msg_id, ExchangeNibbles(ex), call.swap) = record

\* C28 witness: an odd count (three nibbles) decoded with the flag, from
\* bytes whose two nibbles differ
C28_Witness ==
    /\ FastAccepted
    /\ call.swap
    /\ record["data_nibble_count"] = 3
    /\ ExchangeNibbles(call.data) # call.data
    /\ record["sensor"]["digit_value"] = 298

\* C28 witness: an even count (six nibbles) decoded with the flag, with the
\* rolling counter and the invert check present
C28_WitnessEven ==
    /\ FastAccepted
    /\ call.swap
    /\ record["data_nibble_count"] = 6
    /\ ExchangeNibbles(call.data) # call.data
    /\ HasKey(record["sensor"], "rolling_counter")
    /\ HasKey(record["sensor"], "invert_ok")

\* decode_slow_value has run on one of the two characteristic points X1, X2
CharacteristicDone == SlowDone /\ call.msg_id \in {7, 8}

\* C29: for slow ids 0x07 and 0x08, decode_slow_value returns unit "bar" and
\* a value that is the raw value taken directly in bar, for every raw value
\* (the model holds pressures in units of 1e-5 bar).
C29_CharacteristicPoints ==
    CharacteristicDone =>
        /\ record.unit = Some("bar")
        /\ record.value = Some(100000 * call.raw_value)

\* What the code returns instead: the unit, the raw value kept in `raw`, and
\* a value of 0 bar (X1) or 30 bar (X2) whatever the raw value is
C29_FixedValues ==
    CharacteristicDone =>
        /\ record.unit = Some("bar")
        /\ record.raw = call.raw_value
        /\ record.value = Some(IF call.msg_id = 7 THEN 0 ELSE 3000000)

\* The failing input is reached: X1 with raw value 245
C29_FailingInput ==
    /\ CharacteristicDone
    /\ call.msg_id = 7
    /\ call.raw_value = 245
    /\ record.value = Some(0)

(***************************************************************************)
(* Claims about the live session's limits                                  *)
(***************************************************************************)

\* A live session run with --count
Counted == scen = LiveScen /\ args.count # None

\* C30: with --count N the session stops after N received packets: whatever
\* chunks the transport delivers, the number of frames decoded, applied to
\* the running state and written out never exceeds N.
C30_CountNeverExceeded ==
    Counted => seen <= args.count[1]

\* The failing input is reached: --count 1, one read that returns two
\* frames, both decoded and applied to the running state
C30_FailingInput ==
    /\ Counted
    /\ args.count = Some(1)
    /\ reads = 1
    /\ seen = 2
    /\ HasKey(running_state, "serial_number")

\* What the code guarantees instead: once N frames are processed no further
\* read is made, so the excess is at most the frames of the last chunk
C30_NoReadAfterCount ==
    [][(Counted /\ seen >= args.count[1]) => reads' = reads]_vars

====
